---- MODULE Spec2Model ----
(***************************************************************************)
(* A model of the scoring core of the RealEstateHack backend:              *)
(*   backend/services/scoring.py   score_property and its helpers,         *)
(*                                 build_norms_from_dataset                *)
(*   backend/utils/normalize.py    bounded_min_max                         *)
(*   app/main.py                   decision_from_score                     *)
(*   backend/services/broker_llm.py  score_and_explain, _fallback_result,  *)
(*                                 _enforce_thresholds                     *)
(*   backend/utils/caching.py      memoize and clear_prefix, called from   *)
(*                                 several threads                         *)
(*   backend/utils/coerce.py       to_float, to_int                        *)
(*   app/backend_client.py         BackendClient and its local fallback    *)
(*   backend/db/servicenow_client.py  fetch_table                          *)
(*   backend/services/forecast_service.py  _build_forecast                 *)
(*                                                                         *)
(* Numbers.  Python floats are modelled as exact fixed-point integers:     *)
(*   - a raw metric is an integer in its own unit (cap rate, rent growth,  *)
(*     income growth and vacancy in basis points, income in k$, days on    *)
(*     market in days, rent-to-income and affordability in percent);       *)
(*   - a z-score and a normalized value are in thousandths (0.5 is 500);   *)
(*   - the weighted composite `raw` is in 1/100000 (weights are percent,   *)
(*     normalized values thousandths), and a factor's contribution is in   *)
(*     thousandths of a score point, so that weight * norm is at once the  *)
(*     term of the composite and the contribution weight * norm * 100;     *)
(*   - a division floors to the next thousandth (monotone, like float      *)
(*     rounding).                                                          *)
(* None, an absent dictionary key and NaN are sentinel values.             *)
(* The calibrator's percentiles are exact, in hundredths of the sample's   *)
(* unit; its means and stds are rounded after every operation, in a small  *)
(* binary floating-point format, because float sums depend on the order    *)
(* of the summands.                                                        *)
(***************************************************************************)
EXTENDS Integers, Sequences, FiniteSets, TLC

\* ------------------------------------------------------------------ bounds
\* number of distinct numeric cap-rate readings in the input sets
CapLevels == 3
\* number of distinct numeric readings of every other metric
Levels == 2
\* longest sample handed to bounded_min_max
MaxLen == 3
\* longest factor list handed to the broker's fallback
MaxFactors == 4
\* number of threads calling memoized functions and clear_prefix
\* longest top_contributors list of an LLM payload
MaxTop == 2

\* longest string handed to a coercion
MaxChars == 4

\* most records of a ServiceNow table
MaxRecords == 7

NThreads == 2
\* number of operations started in one run: calls of a memoized method,
\* calls of clear_prefix and changes of the repository's dataset
MaxCalls == 3

\* ---------------------------------------------------------------- sentinels
\* Python None
None == -1000001
\* a key that is not in the metrics dictionary
Missing == -1000002
\* float('nan')
NaN == -1000003
\* a TypeError raised inside a helper (None compared or subtracted)
TypeErr == -1000004
\* a ZeroDivisionError raised by a float division
ZeroDiv == -1000005

Sentinels == {None, Missing, NaN, TypeErr, ZeroDiv}

IsNum(x) == x \notin Sentinels

\* isinstance(x, (float, int)): a number or NaN, not None
IsFloatOrInt(x) == IsNum(x) \/ x = NaN

\* metrics.get(key, default)
Get(metrics, key, default) ==
    IF metrics[key] = Missing THEN default ELSE metrics[key]

\* a / b on Python floats, in thousandths: raises ZeroDivisionError on b = 0
PyDiv(a, b) == IF b = 0 THEN ZeroDiv ELSE (a * 1000) \div b

\* ------------------------------------------------------- scoring.py helpers
\* _robust_minmax without the hi == lo guard (the division is reached)
_robust_minmax_noguard(x, lo, hi, clip_lo, clip_hi) ==
    IF x = None THEN TypeErr
    ELSE IF x = NaN THEN (IF hi = lo THEN ZeroDiv ELSE NaN)
    ELSE LET x1 == IF clip_lo # None /\ x < clip_lo THEN clip_lo ELSE x
             x2 == IF clip_hi # None /\ x1 > clip_hi THEN clip_hi ELSE x1
         IN  PyDiv(x2 - lo, hi - lo)

\* _robust_minmax with the scale inverted: (hi - x) / (hi - lo)
_robust_minmax_inverted(x, lo, hi, clip_lo, clip_hi) ==
    IF x = None
    THEN IF clip_lo # None \/ clip_hi # None \/ hi # lo THEN TypeErr ELSE 500
    ELSE IF x = NaN
    THEN IF hi = lo THEN 500 ELSE NaN
    ELSE LET x1 == IF clip_lo # None /\ x < clip_lo THEN clip_lo ELSE x
             x2 == IF clip_hi # None /\ x1 > clip_hi THEN clip_hi ELSE x1
         IN  IF hi = lo THEN 500 ELSE PyDiv(hi - x2, hi - lo)

\* _robust_minmax(x, lo, hi, clip_lo=None, clip_hi=None), in thousandths
_robust_minmax(x, lo, hi, clip_lo, clip_hi) ==
    IF x = None
    THEN \* None < clip_lo, None > clip_hi and None - lo raise TypeError
         IF clip_lo # None \/ clip_hi # None \/ hi # lo THEN TypeErr ELSE 500
    ELSE IF x = NaN
    THEN \* every comparison with NaN is False
         IF hi = lo THEN 500 ELSE NaN
    ELSE LET x1 == IF clip_lo # None /\ x < clip_lo THEN clip_lo ELSE x
             x2 == IF clip_hi # None /\ x1 > clip_hi THEN clip_hi ELSE x1
         IN  IF hi = lo THEN 500 ELSE PyDiv(x2 - lo, hi - lo)

\* _z(x, mean, std), in thousandths
_z(x, mean, std) ==
    IF x = None THEN 0
    ELSE IF std = 0 THEN 0
    ELSE IF x = NaN THEN NaN
    ELSE PyDiv(x - mean, std)

\* SigmoidCut[k] is the least z (in thousandths) with
\* round(100 * _sigmoid(z)) >= k, that is ceil(1000 * logit((k - 0.5) / 100))
SigmoidCut ==
    << -5293, -4184, -3663, -3316, -3055, -2843, -2666, -2512, -2376, -2254,
       -2142, -2040, -1945, -1857, -1774, -1695, -1621, -1550, -1482, -1417,
       -1355, -1295, -1236, -1180, -1125, -1072, -1020, -969, -919, -871,
       -823, -776, -730, -685, -641, -597, -553, -510, -468, -426,
       -384, -343, -302, -261, -220, -180, -140, -100, -60, -20,
       21, 61, 101, 141, 181, 221, 262, 303, 344, 385,
       427, 469, 511, 554, 598, 642, 686, 731, 777, 824,
       872, 920, 970, 1021, 1073, 1126, 1181, 1237, 1296, 1356,
       1418, 1483, 1551, 1622, 1696, 1775, 1858, 1946, 2041, 2143,
       2255, 2377, 2513, 2667, 2844, 3056, 3317, 3664, 4185, 5294 >>

\* int(round(100 * _sigmoid(z))) for z in thousandths
RoundPctSigmoid(z) == Cardinality({k \in 1..100 : z >= SigmoidCut[k]})

\* _clamp_int(v, lo, hi) = max(lo, min(hi, v))
_clamp_int(v, lo, hi) ==
    LET m == IF hi < v THEN hi ELSE v
    IN  IF lo > m THEN lo ELSE m

\* Python round(n / d) for d > 0: to the nearest integer, ties to even
RoundHalfEven(n, d) ==
    LET q == n \div d
        r == n % d
    IN  IF 2 * r < d THEN q
        ELSE IF 2 * r > d THEN q + 1
        ELSE IF q % 2 = 0 THEN q ELSE q + 1

\* --------------------------------------------------------- score_property
\* W_CAP, W_RENTG, W_MSI, W_AFF, in percent
W_CAP == 35
W_RENTG == 35
\* the weight the broker prompt quotes for the market strength index (~0.30)
W_MSI_Prompt == 30

W_MSI == 20
W_AFF == 10

\* "Buy" if score >= 75 else "Hold" if score >= 55 else "Sell", with a
\* strict comparison at the Buy threshold
DecisionStrict(score) ==
    IF score > 75 THEN "Buy" ELSE IF score >= 55 THEN "Hold" ELSE "Sell"

\* decision = "Buy" if score >= 75 else "Hold" if score >= 55 else "Sell"
Decision(score) ==
    IF score >= 75 THEN "Buy" ELSE IF score >= 55 THEN "Hold" ELSE "Sell"

\* float(v): TypeError on None
PyFloat(v) == IF v = None THEN TypeErr ELSE v

\* a - b, a + b on floats: NaN if an operand is NaN
Sub(a, b) == IF a = NaN \/ b = NaN THEN NaN ELSE a - b

\* the sum of the elements of a sequence of floats
RECURSIVE SumSeq(_)
SumSeq(s) ==
    IF s = << >> THEN 0
    ELSE IF Head(s) = NaN \/ SumSeq(Tail(s)) = NaN THEN NaN
    ELSE Head(s) + SumSeq(Tail(s))

\* the market strength index with the vacancy z-score added, not subtracted
MarketStrengthVacancyAdded(z_income, z_growth, z_vacancy, z_dom) ==
    Sub(SumSeq(<< z_income, z_growth, z_vacancy >>), z_dom)

\* msi = z(income) + z(income growth) - z(vacancy) - dom_z
MarketStrength(z_income, z_growth, z_vacancy, z_dom) ==
    Sub(Sub(SumSeq(<< z_income, z_growth >>), z_vacancy), z_dom)

\* w * norm on floats
Times(w, norm) == IF norm = NaN THEN NaN ELSE w * norm

\* the sigmoid of the composite itself, without the z-scoring by raw_z
PyScoreNoZ(raw, mean, std) ==
    IF raw = NaN THEN NaN ELSE RoundPctSigmoid(raw \div 100)

\* int(round(100 * _sigmoid(_z(raw, mean, std)))); round(nan) raises
\* ValueError, reported as NaN
PyScore(raw, mean, std) ==
    LET z == _z(raw, mean, std)
    IN  IF z = NaN THEN NaN ELSE RoundPctSigmoid(z)

\* the linear variant returned as computed: round(100 * raw), no clamp
ReturnedScoreLinear(raw, mean, std) ==
    IF raw = NaN THEN NaN ELSE RoundHalfEven(raw, 1000)

\* the "score" entry of the result: _clamp_int(score, 0, 100)
ReturnedScore(raw, mean, std) ==
    LET score == PyScore(raw, mean, std)
    IN  IF score = NaN THEN NaN ELSE _clamp_int(score, 0, 100)

\* Factor(name, weight, value, contrib) as a dictionary
Factor(name, weight, value, contrib) ==
    [name |-> name, weight |-> weight, value |-> value, contrib |-> contrib]

\* the four attributions with the MSI weight of the prompt text (30)
FactorsWrongWeight(cap, rentg, msi, aff_value, cap_norm, rentg_norm, msi_norm, aff_norm) ==
    << Factor("Market Cap Rate", W_CAP, cap, Times(W_CAP, cap_norm)),
       Factor("Projected Rent Growth (12m)", W_RENTG, rentg, Times(W_RENTG, rentg_norm)),
       Factor("Market Strength Index (MSI)", W_MSI, msi, Times(30, msi_norm)),
       Factor("Affordability (1 - Rent/Inc)", W_AFF, aff_value, Times(W_AFF, aff_norm)) >>

\* factors: List[Factor] = [...]
Factors(cap, rentg, msi, aff_value, cap_norm, rentg_norm, msi_norm, aff_norm) ==
    << Factor("Market Cap Rate", W_CAP, cap, Times(W_CAP, cap_norm)),
       Factor("Projected Rent Growth (12m)", W_RENTG, rentg, Times(W_RENTG, rentg_norm)),
       Factor("Market Strength Index (MSI)", W_MSI, msi, Times(W_MSI, msi_norm)),
       Factor("Affordability (1 - Rent/Inc)", W_AFF, aff_value, Times(W_AFF, aff_norm)) >>

\* what a call leaves when it raises
Raised(kind) ==
    [error |-> kind, score |-> None, decision |-> "", msi |-> None,
     factors |-> << >>]

\* score_property(metrics, norms): the returned dictionary, or the exception
score_property(metrics, norms) ==
    LET dom    == Get(metrics, "dom_now", None)
        dom_z  == IF IsFloatOrInt(dom)
                  THEN _z(dom, norms.dom_z[1], norms.dom_z[2]) ELSE 0
        inc    == metrics["income_median_now"]
        incg   == metrics["income_growth_3y"]
        vac    == metrics["vacancy_rate_now"]
        cap    == metrics["cap_rate_market_now"]
        rentg  == metrics["rent_growth_proj_12m"]
    IN
    IF Missing \in {inc, incg, vac} THEN Raised("KeyError")
    ELSE
    LET msi == MarketStrength(
                   _z(inc, norms.income_median_z[1], norms.income_median_z[2]),
                   _z(incg, norms.income_growth_z[1], norms.income_growth_z[2]),
                   _z(vac, norms.vacancy_z[1], norms.vacancy_z[2]),
                   dom_z)
    IN
    IF cap = Missing THEN Raised("KeyError")
    ELSE
    LET cap_norm == _robust_minmax(cap, norms.cap_minmax[1], norms.cap_minmax[2],
                                   norms.cap_minmax[3], norms.cap_minmax[4])
    IN
    IF cap_norm = TypeErr THEN Raised("TypeError")
    ELSE IF rentg = Missing THEN Raised("KeyError")
    ELSE
    LET rentg_norm == _robust_minmax(rentg, norms.rentg_minmax[1], norms.rentg_minmax[2],
                                     norms.rentg_minmax[3], norms.rentg_minmax[4])
    IN
    IF rentg_norm = TypeErr THEN Raised("TypeError")
    ELSE
    LET msi_norm == _robust_minmax(msi, norms.msi_minmax[1], norms.msi_minmax[2],
                                   norms.msi_minmax[3], norms.msi_minmax[4])
        rti      == PyFloat(Get(metrics, "rent_to_income", 30))
    IN
    IF rti = TypeErr THEN Raised("TypeError")
    ELSE
    LET aff_value == Sub(100, rti)
        aff_norm  == _robust_minmax(aff_value, norms.aff_minmax[1], norms.aff_minmax[2],
                                    norms.aff_minmax[3], norms.aff_minmax[4])
        raw       == SumSeq(<< Times(W_CAP, cap_norm), Times(W_RENTG, rentg_norm),
                               Times(W_MSI, msi_norm), Times(W_AFF, aff_norm) >>)
        score     == PyScore(raw, norms.raw_z[1], norms.raw_z[2])
    IN
    IF score = NaN THEN Raised("ValueError")
    ELSE [error    |-> "none",
          score    |-> ReturnedScore(raw, norms.raw_z[1], norms.raw_z[2]),
          decision |-> Decision(score),
          msi      |-> msi,
          factors  |-> Factors(cap, rentg, msi, aff_value,
                               cap_norm, rentg_norm, msi_norm, aff_norm)]

\* ------------------------------------------------ build_norms_from_dataset
\* The dictionary build_norms_from_dataset returns, from the percentile
\* pairs of _pct_clip and the (mean, std) pairs of _mean_std.  max(std, 1e-9)
\* keeps every std positive; the smallest positive std of the model is 1.
\* Python's max returns its first argument unless the second is greater, so
\* a std of nan stays nan.
MaxStd(std) == IF std = NaN THEN NaN ELSE IF std < 1 THEN 1 ELSE std

NormsFromBounds(cap, rg, aff, income, incg, vac, dom) ==
    [cap_minmax      |-> << cap[1], cap[2], cap[1], cap[2] >>,
     rentg_minmax    |-> << rg[1], rg[2], rg[1], rg[2] >>,
     msi_minmax      |-> << -3000, 3000, None, None >>,
     aff_minmax      |-> << aff[1], aff[2], None, None >>,
     income_median_z |-> << income[1], MaxStd(income[2]) >>,
     income_growth_z |-> << incg[1], MaxStd(incg[2]) >>,
     vacancy_z       |-> << vac[1], MaxStd(vac[2]) >>,
     dom_z           |-> << dom[1], MaxStd(dom[2]) >>,
     raw_z           |-> << 50000, 12000 >>]

\* ----------------------------------------------- main.py decision_from_score
\* decision_from_score(score) of the UI: "Hold" for a score of None
decision_from_score(score) ==
    IF score = None THEN "Hold"
    ELSE IF score >= 75 THEN "Buy"
    ELSE IF score >= 55 THEN "Hold"
    ELSE "Sell"

\* ---------------------------------------------- normalize.py bounded_min_max
\* float('inf') and float('-inf'); they sort above and below every number
PosInf == 1000001
NegInf == -1000000

\* np.isfinite(x)
IsFinite(x) == IsNum(x) /\ x # PosInf /\ x # NegInf

\* [v for v in values if np.isfinite(v)]
FiniteOf(values) == SelectSeq(values, IsFinite)

\* s with x inserted before the first larger element (s sorted)
RECURSIVE Insert(_, _)
Insert(x, s) ==
    IF s = << >> THEN << x >>
    ELSE IF x <= Head(s) THEN << x >> \o s
    ELSE << Head(s) >> \o Insert(x, Tail(s))

\* the sorted array np.percentile works on
RECURSIVE Sorted(_)
Sorted(s) == IF s = << >> THEN << >> ELSE Insert(Head(s), Sorted(Tail(s)))

\* 100 * np.percentile(arr, q) for a non-empty array and q in 0..100: linear
\* interpolation between the order statistics around (n - 1) * q / 100
Percentile100(arr, q) ==
    LET a   == Sorted(arr)
        pos == (Len(a) - 1) * q
        i   == pos \div 100
        f   == pos % 100
    IN  IF f = 0 THEN 100 * a[i + 1]
        ELSE (100 - f) * a[i + 1] + f * a[i + 2]

\* max(lo, min(hi, v)) on floats
Clamp(v, lo, hi) ==
    LET m == IF hi < v THEN hi ELSE v
    IN  IF lo > m THEN lo ELSE m

\* bounded_min_max(value, values, (lo_pct / 100, hi_pct / 100)), in
\* thousandths
bounded_min_max(value, values, lo_pct, hi_pct) ==
    LET arr == FiniteOf(values)
    IN  IF Len(arr) = 0 THEN 500
        ELSE LET lower == Percentile100(arr, lo_pct)
                 upper == Percentile100(arr, hi_pct)
             IN  IF upper = lower THEN 500
                 ELSE Clamp(PyDiv(Clamp(100 * value, lower, upper) - lower,
                                  upper - lower),
                            0, 1000)

\* ------------------------------------------- scoring.py calibration helpers
\* np.asarray(arr, dtype=float): None becomes nan
AsFloatArray(arr) ==
    [i \in 1..Len(arr) |-> IF arr[i] = None THEN NaN ELSE arr[i]]

NotNaN(x) == x # NaN

\* the values np.nanpercentile, np.nanmean and np.nanstd keep: every value
\* that is not nan, the infinities included
DropNaN(arr) == SelectSeq(AsFloatArray(arr), NotNaN)

\* 100 * (a + (b - a) * f / 100) in IEEE arithmetic, for a <= b and f in
\* 0..99: exact on finite neighbours; with an infinite neighbour b - a is
\* inf or nan, and inf * 0, inf - inf are nan
Lerp100(a, b, f) ==
    IF IsFinite(a) /\ IsFinite(b) THEN (100 - f) * a + f * b
    ELSE IF a = b THEN NaN
    ELSE IF f = 0 THEN NaN
    ELSE IF f < 50 THEN (IF a = NegInf THEN NaN ELSE PosInf)
    ELSE (IF b = PosInf THEN NaN ELSE NegInf)

\* np.nanpercentile(arr, q) on the array as it is stored, without sorting
NanPercentile100Unsorted(arr, q) ==
    LET a   == DropNaN(arr)
        n   == Len(a)
        pos == (n - 1) * q
        i   == pos \div 100
        f   == pos % 100
    IN  IF n = 0 THEN NaN
        ELSE Lerp100(a[i + 1], a[IF i + 2 > n THEN n ELSE i + 2], f)

\* 100 * np.nanpercentile(arr, q), q in 0..100: nan values are dropped, the
\* rest is sorted and interpolated linearly; nan for an empty or all-nan array
NanPercentile100(arr, q) ==
    LET a   == Sorted(DropNaN(arr))
        n   == Len(a)
        pos == (n - 1) * q
        i   == pos \div 100
        f   == pos % 100
    IN  IF n = 0 THEN NaN
        ELSE Lerp100(a[i + 1], a[IF i + 2 > n THEN n ELSE i + 2], f)

\* _pct_clip(arr, lo_pct, hi_pct), in hundredths of the sample's unit
_pct_clip(arr, lo_pct, hi_pct) ==
    << NanPercentile100(arr, lo_pct), NanPercentile100(arr, hi_pct) >>

\* Float sums round after every addition.  The mean and the std are
\* computed in a binary floating-point format with SigBits significant bits
\* (53 in a Python float) whose smallest spacing is one unit of the sample.
SigBits == 3

RECURSIVE Pow2(_)
Pow2(n) == IF n = 0 THEN 1 ELSE 2 * Pow2(n - 1)

\* num / den rounded to the nearest value of the format, ties to the even
\* significand
RoundF(num, den) ==
    LET n    == IF num < 0 THEN -num ELSE num
        e    == CHOOSE k \in 0..12 :
                    /\ n < den * Pow2(SigBits + k)
                    /\ k = 0 \/ n >= den * Pow2(SigBits + k - 1)
        step == den * Pow2(e)
        q    == n \div step
        r    == n % step
        up   == 2 * r > step \/ (2 * r = step /\ q % 2 = 1)
        v    == (IF up THEN q + 1 ELSE q) * Pow2(e)
    IN  IF num < 0 THEN -v ELSE v

\* a + b on floats
FAdd(a, b) == RoundF(a + b, 1)

\* the sum of an array, added in array order
RECURSIVE FSumFrom(_, _)
FSumFrom(acc, s) ==
    IF s = << >> THEN acc ELSE FSumFrom(FAdd(acc, Head(s)), Tail(s))

FSum(s) == FSumFrom(0, s)

\* sqrt(v) rounded to the nearest value of the format
FSqrt(v) ==
    LET below == {r \in 0..v : RoundF(r, 1) = r /\ r * r <= v}
        lo    == CHOOSE r \in below : \A o \in below : o <= r
        above == {r \in (lo + 1)..(2 * lo + 1) : RoundF(r, 1) = r}
        hi    == CHOOSE r \in above : \A o \in above : r <= o
    IN  IF 4 * v < (lo + hi) * (lo + hi) THEN lo ELSE hi

\* np.nanmean(arr): nan for an empty or all-nan array (a RuntimeWarning, no
\* exception); an infinity makes the mean infinite, or nan when both occur
NanMean(arr) ==
    LET a == DropNaN(arr)
        has(x) == \E i \in 1..Len(a) : a[i] = x
    IN  IF Len(a) = 0 THEN NaN
        ELSE IF has(PosInf) /\ has(NegInf) THEN NaN
        ELSE IF has(PosInf) THEN PosInf
        ELSE IF has(NegInf) THEN NegInf
        ELSE RoundF(FSum(a), Len(a))

\* np.nanstd(arr): sqrt(mean(abs(x - mean(x)) ** 2)) over the values that
\* are not nan; nan for an empty array and when an infinity occurs
NanStd(arr) ==
    LET a    == DropNaN(arr)
        n    == Len(a)
        mean == RoundF(FSum(a), n)
        sqr  == [i \in 1..n |->
                    RoundF(FAdd(a[i], -mean) * FAdd(a[i], -mean), 1)]
    IN  IF n = 0 THEN NaN
        ELSE IF \E i \in 1..n : ~IsFinite(a[i]) THEN NaN
        ELSE FSqrt(RoundF(FSum(sqr), n))

\* _mean_std(arr)
_mean_std(arr) == << NanMean(arr), NanStd(arr) >>

\* the keys build_norms_from_dataset reads from series_dict
SeriesKeys ==
    {"cap", "rentg_12m", "aff", "income_median", "income_growth_3y",
     "vacancy", "dom"}

\* build_norms_from_dataset(series_dict, robust_percentiles): the norms, or
\* the exception raised.  series_dict.keys are the keys of the dictionary,
\* series_dict.at[k] is the series under key k; np.nanpercentile rejects a
\* percentile outside [0, 100]
build_norms_from_dataset(series_dict, robust_percentiles) ==
    LET p_lo == robust_percentiles[1]
        p_hi == robust_percentiles[2]
        pct(k) == _pct_clip(series_dict.at[k], p_lo, p_hi)
    IN  IF "cap" \notin series_dict.keys THEN [error |-> "KeyError"]
        ELSE IF p_lo \notin 0..100 \/ p_hi \notin 0..100
             THEN [error |-> "ValueError"]
        ELSE IF \E k \in SeriesKeys : k \notin series_dict.keys
             THEN [error |-> "KeyError"]
        ELSE [error |-> "none",
              norms |-> NormsFromBounds(
                            pct("cap"), pct("rentg_12m"), pct("aff"),
                            _mean_std(series_dict.at["income_median"]),
                            _mean_std(series_dict.at["income_growth_3y"]),
                            _mean_std(series_dict.at["vacancy"]),
                            _mean_std(series_dict.at["dom"]))]

\* --------------------------------------- broker_llm.py _fallback_result
\* abs(f.get("contrib", 0.0)), the sort key of a factor
AbsContrib(f) ==
    LET c == IF f.contrib = Missing THEN 0 ELSE f.contrib
    IN  IF c < 0 THEN -c ELSE c

\* x inserted into s before every element it ties with
RECURSIVE InsertByAbsUnstable(_, _)
InsertByAbsUnstable(x, s) ==
    IF s = << >> THEN << x >>
    ELSE IF AbsContrib(Head(s)) >= AbsContrib(x)
         THEN << Head(s) >> \o InsertByAbsUnstable(x, Tail(s))
         ELSE << x >> \o s

\* x, which precedes every element of s in the list being sorted, inserted
\* into s (sorted by descending key): behind the larger keys, before the
\* equal ones, so that equal keys keep their original order
RECURSIVE InsertByAbs(_, _)
InsertByAbs(x, s) ==
    IF s = << >> THEN << x >>
    ELSE IF AbsContrib(Head(s)) > AbsContrib(x)
         THEN << Head(s) >> \o InsertByAbs(x, Tail(s))
         ELSE << x >> \o s

\* sorted(factors, key=lambda f: abs(f.get("contrib", 0.0)), reverse=True)
RECURSIVE SortedByAbs(_)
SortedByAbs(factors) ==
    IF factors = << >> THEN << >>
    ELSE InsertByAbs(Head(factors), SortedByAbs(Tail(factors)))

\* {"name": item.get("name", "Factor"), "effect": "+" or "-"}; every factor
\* of the payloads drawn here has a name
TopEntry(item) ==
    [name   |-> item.name,
     effect |-> IF (IF item.contrib = Missing THEN 0 ELSE item.contrib) >= 0
                THEN "+" ELSE "-"]

\* the top list built from sorted_factors[:2]
TopContributors(factors) ==
    LET sorted_factors == SortedByAbs(factors)
        n == IF Len(sorted_factors) < 2 THEN Len(sorted_factors) ELSE 2
    IN  [i \in 1..n |-> TopEntry(sorted_factors[i])]

\* _fallback_result(payload, fallback_score) without the rationale text;
\* the decision follows the thresholds of score_property
_fallback_result(factors, fallback_score) ==
    [score            |-> fallback_score,
     decision         |-> Decision(fallback_score),
     top_contributors |-> TopContributors(factors)]

\* float(data["score"]): the score of the LLM payload is a JSON number (in
\* tenths), a string holding a number, any other string, null, NaN, an
\* infinity, or the key is absent.  float() raises on a non-numeric string
\* (ValueError), on None (TypeError) and the lookup on an absent key
\* (KeyError); round() raises on NaN (ValueError) and on an infinity
\* (OverflowError).
ScoreRaises(score) == score.kind \in {"text", "none", "nan", "inf", "missing"}

\* one entry of data["top_contributors"]: a dict contributes
\* item.get("name") or item.get("factor") or "Factor" (an absent, null or
\* empty name is ""), and its effect when that is "+" or "-", otherwise the
\* sign of item.get("contribution", 0); `None >= 0` raises TypeError.
\* Anything else contributes str(item) with "+".
ItemRaises(item) ==
    /\ item.kind = "dict"
    /\ item.effect \notin {"+", "-"}
    /\ item.contribution = None

NormalizedItem(item) ==
    IF item.kind = "dict"
    THEN [name   |-> IF item.name # "" THEN item.name
                     ELSE IF item.factor # "" THEN item.factor
                     ELSE "Factor",
          effect |-> IF item.effect \in {"+", "-"} THEN item.effect
                     ELSE IF (IF item.contribution = Missing THEN 0
                              ELSE item.contribution) >= 0
                          THEN "+" ELSE "-"]
    ELSE [name |-> item.name, effect |-> "+"]

\* an _enforce_thresholds that clamps the score and keeps the decision of
\* the LLM
_enforce_thresholds_keeps_decision(data) ==
    LET rounded == IF ScoreRaises(data.score) THEN 0
                   ELSE RoundHalfEven(data.score.val, 10)
        score   == _clamp_int(rounded, 0, 100)
        top     == data.top_contributors
    IN  IF \E i \in 1..Len(top) : ItemRaises(top[i])
        THEN [error |-> "TypeError"]
        ELSE [error            |-> "none",
              score            |-> score,
              decision         |-> data.decision,
              top_contributors |->
                  [i \in 1..Len(top) |-> NormalizedItem(top[i])]]

\* _enforce_thresholds(data): score = int(round(float(data["score"]))), 0
\* on any exception, then max(0, min(100, score)); the decision is
\* decision_from_score(score); top_contributors is rebuilt entry by entry
_enforce_thresholds(data) ==
    LET rounded == IF ScoreRaises(data.score) THEN 0
                   ELSE RoundHalfEven(data.score.val, 10)
        score   == _clamp_int(rounded, 0, 100)
        top     == data.top_contributors
    IN  IF \E i \in 1..Len(top) : ItemRaises(top[i])
        THEN [error |-> "TypeError"]
        ELSE [error            |-> "none",
              score            |-> score,
              decision         |-> Decision(score),
              top_contributors |->
                  [i \in 1..Len(top) |-> NormalizedItem(top[i])]]

\* what the try block of score_and_explain raises before it reaches
\* _enforce_thresholds: generate_content raises; _extract_text raises
\* ValueError on an empty response; json.loads raises on text that is no
\* JSON; a payload without one of the keys score, decision, rationale,
\* top_contributors, or whose top_contributors is no list, raises ValueError
LLMFailure(outcome) ==
    IF outcome = "raises" THEN "RuntimeError"
    ELSE IF outcome = "empty" THEN "ValueError"
    ELSE IF outcome = "prose" THEN "JSONDecodeError"
    ELSE IF outcome \in {"no_score", "no_decision", "no_rationale",
                         "no_top_contributors", "top_not_list"}
         THEN "ValueError"
    ELSE "none"

\* a score_and_explain whose handler is `except ValueError`
score_and_explain_except_value_error(factors, fallback_total_score, llm) ==
    LET fallback_score == IF fallback_total_score \in {Missing, None, 0}
                          THEN 0 ELSE fallback_total_score
        fb       == _fallback_result(factors, fallback_score)
        fallback == [error |-> "none", score |-> fb.score,
                     decision |-> fb.decision,
                     top_contributors |-> fb.top_contributors]
        exc      == LLMFailure(llm.outcome)
        enforced == _enforce_thresholds(llm.scored)
    IN  IF ~llm.model THEN fallback
        ELSE IF exc \in {"ValueError", "JSONDecodeError"} THEN fallback
        ELSE IF exc # "none" THEN [error |-> exc]
        ELSE enforced

\* score_and_explain(analysis): fallback_score is
\* explanations.fallback_total_score or 0; the fallback is built first and
\* returned when no model is configured and from `except Exception`
score_and_explain(factors, fallback_total_score, llm) ==
    LET fallback_score == IF fallback_total_score \in {Missing, None, 0}
                          THEN 0 ELSE fallback_total_score
        fb       == _fallback_result(factors, fallback_score)
        fallback == [error |-> "none", score |-> fb.score,
                     decision |-> fb.decision,
                     top_contributors |-> fb.top_contributors]
        exc      == LLMFailure(llm.outcome)
        enforced == _enforce_thresholds(llm.scored)
    IN  IF ~llm.model THEN fallback
        ELSE IF exc # "none" THEN fallback
        ELSE IF enforced.error # "none" THEN fallback
        ELSE enforced

\* ------------------------------------------------------- utils/coerce.py
\* A value handed to a coercion is None, a string (its characters), a float
\* num/den, NaN, an infinity, or something that is no scalar (a list).  The
\* outcome of a conversion is None, a float num/den, an int, NaN, an
\* infinity, or the exception raised.
NoneOut == [kind |-> "None", num |-> 0, den |-> 1]
Raise(exc) == [kind |-> exc, num |-> 0, den |-> 1]
Failed(r) == r.kind \in {"TypeError", "ValueError", "OverflowError"}

\* str.lower() on the letters drawn
LowerStr(s) ==
    [i \in 1..Len(s) |-> IF s[i] = "U" THEN "u"
                         ELSE IF s[i] = "L" THEN "l" ELSE s[i]]

\* float(str) ignores leading and trailing whitespace
RECURSIVE StripLeft(_)
StripLeft(s) ==
    IF s # << >> /\ Head(s) = " " THEN StripLeft(Tail(s)) ELSE s

RECURSIVE StripRight(_)
StripRight(s) ==
    IF s # << >> /\ s[Len(s)] = " "
    THEN StripRight(SubSeq(s, 1, Len(s) - 1)) ELSE s

Digits == {"1", "5"}

RECURSIVE DigitsValue(_)
DigitsValue(ds) ==
    IF ds = << >> THEN 0
    ELSE 10 * DigitsValue(SubSeq(ds, 1, Len(ds) - 1))
         + (IF ds[Len(ds)] = "1" THEN 1 ELSE 5)

RECURSIVE Pow10(_)
Pow10(n) == IF n = 0 THEN 1 ELSE 10 * Pow10(n - 1)

\* float(s) for a string: optional sign, digits with at most one decimal
\* point and at least one digit; ValueError otherwise
ParseFloatStr(s) ==
    LET t      == StripRight(StripLeft(s))
        neg    == t # << >> /\ Head(t) = "-"
        body   == IF neg THEN Tail(t) ELSE t
        dots   == {i \in 1..Len(body) : body[i] = "."}
        digits == SelectSeq(body, LAMBDA c : c \in Digits)
        frac   == IF dots = {} THEN 0
                  ELSE Len(body) - (CHOOSE i \in dots : TRUE)
        mag    == DigitsValue(digits)
    IN  IF /\ \A i \in 1..Len(body) : body[i] \in Digits \cup {"."}
           /\ Cardinality(dots) <= 1
           /\ digits # << >>
        THEN [kind |-> "float", num |-> IF neg THEN 0 - mag ELSE mag,
              den |-> Pow10(frac)]
        ELSE Raise("ValueError")

\* float(v)
float_of(v) ==
    IF v.kind = "str" THEN ParseFloatStr(v.chars)
    ELSE IF v.kind \in {"none", "list"} THEN Raise("TypeError")
    ELSE [kind |-> v.kind, num |-> v.num, den |-> v.den]

\* int(f) for a float f: truncation towards zero; ValueError on NaN,
\* OverflowError on an infinity
int_of(f) ==
    IF f.kind = "nan" THEN Raise("ValueError")
    ELSE IF f.kind = "inf" THEN Raise("OverflowError")
    ELSE [kind |-> "int",
          num  |-> IF f.num < 0 THEN 0 - ((0 - f.num) \div f.den)
                   ELSE f.num \div f.den,
          den  |-> 1]

\* v is None or v == "" or str(v).lower() == "null"
IsAbsent(v) ==
    \/ v.kind = "none"
    \/ /\ v.kind = "str"
       /\ \/ v.chars = << >>
          \/ LowerStr(v.chars) = << "n", "u", "l", "l" >>

\* to_float(v)
to_float(v) ==
    IF IsAbsent(v) THEN NoneOut
    ELSE LET r == float_of(v)
         IN  IF Failed(r) THEN NoneOut ELSE r

\* a to_int without its try/except
to_int_unguarded(v) ==
    IF IsAbsent(v) THEN NoneOut
    ELSE LET f == float_of(v)
             r == IF Failed(f) THEN f ELSE int_of(f)
         IN  r

\* to_int(v): int(float(v)), None on any exception
to_int(v) ==
    IF IsAbsent(v) THEN NoneOut
    ELSE LET f == float_of(v)
             r == IF Failed(f) THEN f ELSE int_of(f)
         IN  IF Failed(r) THEN NoneOut ELSE r

\* --------------------------------------------------- app/backend_client.py
\* The client: use_api, for each local service whether it is initialised
\* (not None), and _analysis_cache, per property the keys it holds.  A
\* method returns the client it leaves and the exception it raises.
Pids == {"p1", "p2"}

\* the fields __init__ assigns before it may enable the local mode
NewClient(use_api) ==
    [use_api |-> use_api, repository |-> FALSE, forecast_service |-> FALSE,
     comps_service |-> FALSE, analysis_service |-> FALSE, broker |-> FALSE,
     pdf_service |-> FALSE, cache |-> [p \in Pids |-> [json |-> FALSE, model |-> FALSE,
                                              score |-> FALSE]]]

Return(c) == [c |-> c, exc |-> "none"]
Throw(c, exc) == [c |-> c, exc |-> exc]

\* an _enable_local_mode that clears use_api before it builds the services
_enable_local_mode_flag_first(c, repo_ok) ==
    IF ~c.repository
    THEN IF repo_ok
         THEN Return([c EXCEPT !.repository = TRUE,
                               !.forecast_service = TRUE,
                               !.comps_service = TRUE,
                               !.analysis_service = TRUE,
                               !.broker = TRUE, !.pdf_service = TRUE,
                               !.use_api = FALSE])
         ELSE Throw([c EXCEPT !.use_api = FALSE], "OSError")
    ELSE Return([c EXCEPT !.use_api = FALSE])

\* _enable_local_mode(): builds the repository and the services when
\* repository is None, then clears use_api; get_repository() may raise
\* (repo_ok is FALSE), and then nothing was assigned
_enable_local_mode(c, repo_ok) ==
    IF ~c.repository
    THEN IF repo_ok
         THEN Return([c EXCEPT !.repository = TRUE,
                               !.forecast_service = TRUE,
                               !.comps_service = TRUE,
                               !.analysis_service = TRUE,
                               !.broker = TRUE, !.pdf_service = TRUE,
                               !.use_api = FALSE])
         ELSE Throw(c, "OSError")
    ELSE Return([c EXCEPT !.use_api = FALSE])

\* an API request failed with a RequestException: an HTTP error status (a
\* 404 outside get_analysis included) goes through _raise_for_status, which enables the local mode and raises
\* again; the handler `except requests.RequestException` of the method then
\* enables the local mode (again).  An exception of _enable_local_mode
\* leaves the method.
AfterApiFailure(c, api, repo_ok) ==
    LET first == IF api \in {"http_error", "not_found"}
                 THEN _enable_local_mode(c, repo_ok)
                 ELSE Return(c)
    IN  IF first.exc # "none" THEN first
        ELSE _enable_local_mode(first.c, repo_ok)

\* list_properties(submarket, limit); a method called on a service that is
\* None raises AttributeError
list_properties(c, api, repo_ok) ==
    IF c.use_api /\ api = "ok" THEN Return(c)
    ELSE LET e == IF c.use_api THEN AfterApiFailure(c, api, repo_ok)
                  ELSE Return(c)
         IN  IF e.exc # "none" THEN e
             ELSE IF ~e.c.repository THEN Throw(e.c, "AttributeError")
             ELSE Return(e.c)

\* get_analysis(property_id): a 404 raises ValueError; found says whether
\* the local analysis finds the property
get_analysis(c, pid, api, repo_ok, found) ==
    IF c.use_api /\ api = "ok"
    THEN Return([c EXCEPT !.cache[pid].json = TRUE])
    ELSE IF c.use_api /\ api = "not_found" THEN Throw(c, "ValueError")
    ELSE LET e == IF c.use_api THEN AfterApiFailure(c, api, repo_ok)
                  ELSE Return(c)
         IN  IF e.exc # "none" THEN e
             ELSE IF ~e.c.analysis_service THEN Throw(e.c, "AttributeError")
             ELSE IF ~found THEN Throw(e.c, "ValueError")
             ELSE Return([e.c EXCEPT !.cache[pid].json = TRUE,
                                     !.cache[pid].model = TRUE])

\* score_analysis(analysis) for the analysis of property pid
score_analysis(c, pid, api, repo_ok) ==
    IF c.cache[pid].score THEN Return(c)
    ELSE IF c.use_api /\ api = "ok"
    THEN Return([c EXCEPT !.cache[pid].score = TRUE])
    ELSE LET e == IF c.use_api THEN AfterApiFailure(c, api, repo_ok)
                  ELSE Return(c)
         IN  IF e.exc # "none" THEN e
             ELSE IF ~e.c.broker
                  THEN Throw([e.c EXCEPT !.cache[pid].model = TRUE],
                             "AttributeError")
             ELSE Return([e.c EXCEPT !.cache[pid].model = TRUE,
                                     !.cache[pid].score = TRUE])

\* ask_broker(property_id, analysis, question)
ask_broker(c, pid, api_score, api, repo_ok) ==
    LET s == score_analysis(c, pid, api_score, repo_ok)
    IN  IF s.exc # "none" THEN s
        ELSE IF s.c.use_api /\ api = "ok" THEN s
        ELSE LET e == IF s.c.use_api THEN AfterApiFailure(s.c, api, repo_ok)
                      ELSE s
             IN  IF e.exc # "none" THEN e
                 ELSE IF ~e.c.broker
                      THEN Throw([e.c EXCEPT !.cache[pid].model = TRUE],
                                 "AttributeError")
                 ELSE Return([e.c EXCEPT !.cache[pid].model = TRUE])

\* export_pdf(property_id)
export_pdf(c, pid, api_analysis, api_score, api, repo_ok, found) ==
    LET a == get_analysis(c, pid, api_analysis, repo_ok, found)
        s == IF a.exc # "none" THEN a
             ELSE score_analysis(a.c, pid, api_score, repo_ok)
    IN  IF s.exc # "none" THEN s
        ELSE IF s.c.use_api /\ api = "ok" THEN s
        ELSE LET e == IF s.c.use_api THEN AfterApiFailure(s.c, api, repo_ok)
                      ELSE s
             IN  IF e.exc # "none" THEN e
                 ELSE IF ~e.c.cache[pid].model /\ ~e.c.analysis_service
                      THEN Throw(e.c, "AttributeError")
                 ELSE IF ~e.c.cache[pid].model /\ ~found
                      THEN Throw(e.c, "ValueError")
                 ELSE IF ~e.c.pdf_service
                      THEN Throw([e.c EXCEPT !.cache[pid].model = TRUE],
                                 "AttributeError")
                 ELSE Return([e.c EXCEPT !.cache[pid].model = TRUE])

\* ------------------------------------------------- db/servicenow_client.py
\* PAGE_SIZE, scaled from 200 records to 2
PAGE_SIZE == 2

\* the page the server answers for sysparm_offset = offset and
\* sysparm_limit = PAGE_SIZE
Page(table, offset) ==
    SubSeq(table, offset + 1,
           IF offset + PAGE_SIZE < Len(table) THEN offset + PAGE_SIZE
           ELSE Len(table))

\* ------------------------------------------------- services/forecast_service.py
future_periods == 36

\* the naive projection of a non-empty series: the last value repeated for
\* a single point, else baseline + slope * (idx + 1) with slope =
\* (series[-1] - series[0]) / max(len(series) - 1, 1), bounds at 96% and
\* 104%.  A value is num / den.
NaivePoints(series) ==
    LET n        == Len(series)
        den      == IF n - 1 > 1 THEN n - 1 ELSE 1
        baseline == series[n]
        rise     == IF n < 2 THEN 0 ELSE series[n] - series[1]
    IN  [i \in 1..future_periods |->
            LET num == baseline * den + rise * i
            IN  [month |-> i, value |-> num, den |-> den,
                 lower |-> IF n < 2 THEN 100 * num ELSE 96 * num,
                 upper |-> IF n < 2 THEN 100 * num ELSE 104 * num]]

\* a _build_forecast without the handler around the Prophet block
_build_forecast_prophet_unguarded(series, prophet, arima) ==
    LET Backend(name) == [i \in 1..future_periods |->
                             [month |-> i, backend |-> name]]
        tried1 == IF prophet # "unavailable" THEN << "prophet" >> ELSE << >>
        tried2 == IF arima # "unavailable" THEN Append(tried1, "arima")
                  ELSE tried1
    IN  IF prophet = "ok"
        THEN [exc |-> "none", tried |-> tried1, points |-> Backend("prophet")]
        ELSE IF prophet = "raises"
        THEN [exc |-> "Exception", tried |-> tried1, points |-> << >>]
        ELSE IF arima = "ok"
        THEN [exc |-> "none", tried |-> tried2, points |-> Backend("arima")]
        ELSE IF series = << >>
        THEN [exc |-> "IndexError", tried |-> Append(tried2, "naive"),
              points |-> << >>]
        ELSE [exc |-> "none", tried |-> Append(tried2, "naive"),
              points |-> NaivePoints(series)]

\* _build_forecast(df, metric): the Prophet block when self._Prophet is
\* set, the ARIMA block when self._auto_arima is set, each inside
\* try/except Exception and returning its 36 rows, then the naive
\* projection, which reads df["ds"].iloc[-1] (IndexError on an empty frame)
_build_forecast(series, prophet, arima) ==
    LET Backend(name) == [i \in 1..future_periods |->
                             [month |-> i, backend |-> name]]
        tried1 == IF prophet # "unavailable" THEN << "prophet" >> ELSE << >>
        tried2 == IF arima # "unavailable" THEN Append(tried1, "arima")
                  ELSE tried1
    IN  IF prophet = "ok"
        THEN [exc |-> "none", tried |-> tried1, points |-> Backend("prophet")]
        ELSE IF arima = "ok"
        THEN [exc |-> "none", tried |-> tried2, points |-> Backend("arima")]
        ELSE IF series = << >>
        THEN [exc |-> "IndexError", tried |-> Append(tried2, "naive"),
              points |-> << >>]
        ELSE [exc |-> "none", tried |-> Append(tried2, "naive"),
              points |-> NaivePoints(series)]

\* ------------------------------------------------------ utils/caching.py
\* key = (prefix, args, tuple(sorted(kwargs.items()))), for a call without
\* keyword arguments
CacheKeyPrefixOnly(prefix, args) == << prefix, "" >>

CacheKey(prefix, args) == << prefix, args >>

\* the value a wrapped function returns: which call produced it, from which
\* version of the dataset, and how many invalidations of its prefix had
\* completed when the dataset was read
Computed(prefix, args, version, completed) ==
    [call |-> << prefix, args >>, ver |-> version, epoch |-> completed]

\* _memory_cache[key] = result
CachePut(c, key, value) ==
    [k \in DOMAIN c \cup {key} |-> IF k = key THEN value ELSE c[k]]

\* a clear_prefix that empties the whole cache
CacheClearAll(c, prefix) == << >>

\* to_delete = [key for key in _memory_cache if key[0] == prefix], then
\* del _memory_cache[key] for each
CacheClear(c, prefix) ==
    [k \in {key \in DOMAIN c : key[1] # prefix} |-> c[k]]

\* ------------------------------------------------------------- input sets
Nums(base, step, n) == {base + step * i : i \in 0..(n - 1)}

MetricKeys ==
    {"cap_rate_market_now", "rent_growth_proj_12m", "income_median_now",
     "income_growth_3y", "vacancy_rate_now", "dom_now", "rent_to_income"}

\* numeric readings: cap rates of 3%, 5%, 7%, ... and the absurd 2.0 (200%)
NumDomain ==
    [k \in MetricKeys |->
        CASE k = "cap_rate_market_now"  -> Nums(300, 200, CapLevels) \cup {20000}
          [] k = "rent_growth_proj_12m" -> Nums(100, 300, Levels)
          [] k = "income_median_now"    -> Nums(60, 40, Levels)
          [] k = "income_growth_3y"     -> Nums(100, 200, Levels)
          [] k = "vacancy_rate_now"     -> Nums(300, 300, Levels)
          [] k = "dom_now"              -> Nums(20, 40, Levels)
          [] k = "rent_to_income"       -> Nums(20, 70, Levels)]

\* readings that are not numbers: an absent key, None, NaN
AbsentDomain ==
    [k \in MetricKeys |->
        CASE k = "cap_rate_market_now"  -> {Missing, None, NaN}
          [] k = "rent_growth_proj_12m" -> {Missing, None}
          [] k = "income_median_now"    -> {Missing, None}
          [] k = "income_growth_3y"     -> {None}
          [] k = "vacancy_rate_now"     -> {None}
          [] k = "dom_now"              -> {Missing, None, NaN}
          [] k = "rent_to_income"       -> {Missing, None}]

Domain(k) == NumDomain[k] \cup AbsentDomain[k]

MetricsSet ==
    {[cap_rate_market_now  |-> cap,
      rent_growth_proj_12m |-> rentg,
      income_median_now    |-> inc,
      income_growth_3y     |-> incg,
      vacancy_rate_now     |-> vac,
      dom_now              |-> dom,
      rent_to_income       |-> rti] :
        cap \in Domain("cap_rate_market_now"),
        rentg \in Domain("rent_growth_proj_12m"),
        inc \in Domain("income_median_now"),
        incg \in Domain("income_growth_3y"),
        vac \in Domain("vacancy_rate_now"),
        dom \in Domain("dom_now"),
        rti \in Domain("rent_to_income")}

NumericMetricsSet == {m \in MetricsSet : \A k \in MetricKeys : IsNum(m[k])}

\* calibrated norms: a spread and a collapsed (lo = hi) band for the cap
\* rate and for affordability
NormsSet ==
    {NormsFromBounds(cap, << 100, 400 >>, aff,
                     << 80, 20 >>, << 200, 100 >>, << 450, 150 >>, << 40, 20 >>) :
        cap \in {<< 400, 600 >>, << 500, 500 >>},
        aff \in {<< 60, 80 >>, << 70, 70 >>}}

\* one fully numeric reading and the norms of the default call
BaseMetrics ==
    [cap_rate_market_now  |-> 500,
     rent_growth_proj_12m |-> 100,
     income_median_now    |-> 60,
     income_growth_3y     |-> 100,
     vacancy_rate_now     |-> 300,
     dom_now              |-> 20,
     rent_to_income       |-> 20]

BaseNorms ==
    NormsFromBounds(<< 400, 600 >>, << 100, 400 >>, << 60, 80 >>,
                    << 80, 20 >>, << 200, 100 >>, << 450, 150 >>, << 40, 20 >>)

\* the scores a decision is asked for: every integer score, and None
ScoreInputs == 0..100 \cup {None}

\* raw values and bands handed to _robust_minmax
MinMaxInputs == {40, 50, 60, 90, NaN}
MinMaxBands == {<< 50, 50 >>, << 50, 70 >>, << 70, 70 >>}

\* values and samples handed to bounded_min_max
SampleInputs == {40, 50, 60, 90}
Samples == UNION {[1..n -> {50, 70, NaN}] : n \in 0..MaxLen}

\* sample values handed to the calibrator, in the sample's unit: two
\* numbers, None (an absent reading, nan in the float array) and the two
\* infinities
CalValues == {4, 32, None, PosInf, NegInf}
CalSamples == UNION {[1..n -> CalValues] : n \in 0..MaxLen}

\* series_dict: every series holds the drawn sample; an empty dictionary
\* lacks every key
EmptySeriesDict == [keys |-> {}, at |-> [k \in SeriesKeys |-> << >>]]
SeriesDicts ==
    {[keys |-> SeriesKeys, at |-> [k \in SeriesKeys |-> xs]] :
        xs \in CalSamples} \cup {EmptySeriesDict}

\* robust_percentiles: the default, a reversed band and a band
\* np.nanpercentile rejects
PctPairs == {<< 5, 95 >>, << 95, 5 >>, << 0, 101 >>}

\* the permutations of 1..n
Perms(n) == {p \in [1..n -> 1..n] : \A i, j \in 1..n : p[i] = p[j] => i = j}

\* a dataset with the elements of every series in the order p
Permuted(series_dict, p) ==
    [series_dict EXCEPT
        !.at = [k \in SeriesKeys |->
                   [i \in 1..Len(series_dict.at[k]) |-> series_dict.at[k][p[i]]]]]

\* the factors of a payload: catalog names in catalog order, contributions
\* that tie in absolute value, and factors without a contribution
FactorNames ==
    << "Market Cap Rate", "Projected Rent Growth (12m)",
       "Market Strength Index (MSI)", "Affordability (1 - Rent/Inc)",
       "Factor 5", "Factor 6" >>
ContribValues == {-20000, -10000, 10000, Missing}
PayloadFactors ==
    UNION {{[i \in 1..n |-> [name |-> FactorNames[i], contrib |-> c[i]]] :
               c \in [1..n -> ContribValues]} : n \in 0..MaxFactors}
FallbackScores == {54, 75}

\* the scores an LLM payload can hold, numbers in tenths
LLMScores ==
    [kind : {"number"}, val : {-50, 5, 545, 549, 550, 745, 750, 755, 1004, 2500}]
    \cup [kind : {"string"}, val : {800}]
    \cup [kind : {"text", "none", "nan", "inf", "missing"}, val : {0}]

LLMDecisions == {"Buy", "Hold", "Sell", "Strong Buy"}

\* entries of the LLM's top_contributors list
LLMItems ==
    { [kind |-> "dict", name |-> "Cap rate", factor |-> "", effect |-> "+",
       contribution |-> Missing],
      [kind |-> "dict", name |-> "", factor |-> "Rent growth",
       effect |-> "up", contribution |-> -5],
      [kind |-> "dict", name |-> "", factor |-> "", effect |-> "",
       contribution |-> Missing],
      [kind |-> "dict", name |-> "MSI", factor |-> "", effect |-> "",
       contribution |-> None],
      [kind |-> "str", name |-> "vacancy", factor |-> "", effect |-> "",
       contribution |-> Missing] }

\* payloads that passed _validate_score_payload
LLMPayloads ==
    [score : LLMScores, decision : LLMDecisions,
     top_contributors : UNION { [1..n -> LLMItems] : n \in 0..MaxTop }]

\* the strings handed to the coercions
Strings ==
    LET Chars == {"n", "u", "U", "l", "L", "1", "5", ".", "-", " "}
    IN  UNION { [1..n -> Chars] : n \in 0..MaxChars }

\* the values handed to the coercions: cells of a CSV or JSON record
CoerceInputs ==
    [kind : {"str"}, chars : Strings, num : {0}, den : {1}]
    \cup [kind : {"float"}, chars : {<< >>}, num : {-37, 0, 5, 19}, den : {10}]
    \cup [kind : {"none", "nan", "inf", "list"}, chars : {<< >>}, num : {0},
          den : {1}]

\* what the analysis holds as explanations.fallback_total_score
FallbackTotals == {Missing, None, 0, 54, 75}

\* what the Gemini client does: no model configured, or a model whose call
\* raises, answers nothing, answers prose, answers JSON that fails the
\* validation, or answers a payload
LLMReplies ==
    [model : {FALSE}, outcome : {"json"},
     scored : {p \in LLMPayloads : p.top_contributors = << >>
                                   /\ p.decision = "Hold"}]
    \cup [model : {TRUE},
          outcome : {"raises", "empty", "prose", "no_score", "no_decision",
                     "no_rationale", "no_top_contributors", "top_not_list"},
          scored : {p \in LLMPayloads : p.top_contributors = << >>
                                        /\ p.decision = "Hold"
                                        /\ p.score.val = 750}]
    \cup [model : {TRUE}, outcome : {"json"},
          scored : {p \in LLMPayloads : /\ Len(p.top_contributors) <= 1
                                        /\ p.score.kind # "missing"}]

\* what a request to the API does: a 200 answer, a 404 answer, another
\* error status, or no answer at all
ApiOutcomes == {"ok", "not_found", "http_error", "connection_error"}

\* the histories of a metric: monthly values, oldest first
Histories == UNION { [1..n -> {1500, 1800}] : n \in 0..MaxLen }

\* the threads, the prefixes of the two memoized methods and the service
\* instances (self) they are called on
Threads == 1..NThreads
Prefixes == {"analysis.metric_distributions", "forecast"}
Args == {"service1", "service2"}

NoValue == Computed("", "", 0, 0)

\* a thread outside any call
\* the frame of the call whose wrapped function is waiting for a memoized
\* call it made itself; NoFrame when there is none
NoFrame == [prefix |-> "", args |-> ""]

IdleThread ==
    [pc |-> "idle", op |-> "none", prefix |-> "", args |-> "",
     result |-> NoValue, start_epoch |-> 0, start_data |-> 0,
     seen |-> FALSE, computed |-> FALSE, outer |-> NoFrame,
     nested |-> FALSE]

\* ------------------------------------------------------------------ state
VARIABLES
    metrics,    \* the metrics dictionary of the scoring call
    norms,      \* the norms dictionary of the scoring call
    result,     \* what the last score_property call returned or raised
    prev,       \* the first call of a pair: its metrics and result
    dec,        \* the last decision query: score, scorer decision, UI decision
    nm,         \* the last call of a normalizer: function, arguments, output
    cal,        \* the last calibration: dataset, percentiles, output
    br,         \* the last fallback of the broker: payload, score, output
    cache,      \* _memory_cache: the cached value of every cached key
    lock,       \* _cache_lock: the thread that holds it, 0 when free
    thr,        \* every thread's call: position, arguments, locals, history
    data,       \* the version of the dataset the repository returns
    epoch,      \* per prefix, the number of clear_prefix calls completed
    calls,      \* the number of operations started
    co,         \* the last coercion call: function, input, output
    client,     \* the BackendClient of the UI: mode and local services
    sn,         \* the fetch_table call: table, offset, rows, requests
    fc          \* the last _build_forecast call: backends, history, output

vars == << metrics, norms, result, prev, dec, nm, cal, br,
           cache, lock, thr, data, epoch, calls, co, client, sn, fc >>

\* the state of the scoring calls, and of the services around them
scoreVars == << metrics, norms, result, prev, dec, nm >>
cacheVars == << cache, lock, thr, data, epoch, calls >>
ioVars == << co, client, sn, fc >>
serviceVars == << cal, br, cacheVars, ioVars >>

Pending == Raised("pending")

Idle == [fn |-> "none"]

\* no service has been called
ServicesIdle ==
    /\ cal = Idle
    /\ br = Idle
    /\ cache = << >>
    /\ lock = 0
    /\ thr = [t \in Threads |-> IdleThread]
    /\ data = 0
    /\ epoch = [p \in Prefixes |-> 0]
    /\ calls = 0
    /\ co = Idle
    /\ client = Idle
    /\ sn = Idle
    /\ fc = Idle

\* ---------------------------------------------------------------- actions
\* a scorer that writes its default for rent_to_income into the caller's
\* dictionary (metrics.setdefault("rent_to_income", 0.30))
ScorePropertyFillsDefault ==
    /\ result.error = "pending"
    /\ result' = score_property(metrics, norms)
    /\ metrics' = [metrics EXCEPT !.rent_to_income =
                      IF @ = Missing THEN 30 ELSE @]
    /\ UNCHANGED << norms, prev, dec, nm, serviceVars >>

\* result = score_property(metrics, norms)
ScoreProperty ==
    /\ result.error = "pending"
    /\ result' = score_property(metrics, norms)
    /\ UNCHANGED << metrics, norms, prev, dec, nm, serviceVars >>

\* the caller changes one reading of a scored property and scores it again;
\* prev keeps the first call, so a run is one pair of calls (Init draws
\* every first call)
Rescore(k, v) ==
    /\ result.error # "pending"
    /\ prev.result.error = "pending"
    /\ v # metrics[k]
    /\ prev' = [metrics |-> metrics, result |-> result]
    /\ metrics' = [metrics EXCEPT ![k] = v]
    /\ result' = score_property(metrics', norms)
    /\ UNCHANGED << norms, dec, nm, serviceVars >>

\* the decision for one score, by the scorer's rule and by the UI's
DecideCall(s) ==
    /\ dec' = [fn      |-> "decision",
               score   |-> s,
               backend |-> IF s = None THEN "" ELSE Decision(s),
               ui      |-> decision_from_score(s)]
    /\ UNCHANGED << metrics, norms, result, prev, nm, serviceVars >>

\* _robust_minmax(x, lo, hi, clip_lo, clip_hi)
RobustMinMaxCall(x, lo, hi, clip_lo, clip_hi) ==
    /\ nm' = [fn |-> "_robust_minmax", x |-> x, lo |-> lo, hi |-> hi,
              clip_lo |-> clip_lo, clip_hi |-> clip_hi, values |-> << >>,
              out |-> _robust_minmax(x, lo, hi, clip_lo, clip_hi)]
    /\ UNCHANGED << metrics, norms, result, prev, dec, serviceVars >>

\* bounded_min_max(value, values) with the default percentile_clip
BoundedMinMaxCall(value, values) ==
    /\ nm' = [fn |-> "bounded_min_max", x |-> value, lo |-> None, hi |-> None,
              clip_lo |-> None, clip_hi |-> None, values |-> values,
              out |-> bounded_min_max(value, values, 5, 95)]
    /\ UNCHANGED << metrics, norms, result, prev, dec, serviceVars >>

\* cal = build_norms_from_dataset(series_dict, robust_percentiles)
BuildNorms(series_dict, robust_percentiles) ==
    /\ cal = Idle
    /\ cal' = [fn                 |-> "build_norms_from_dataset",
               series_dict        |-> series_dict,
               robust_percentiles |-> robust_percentiles,
               out   |-> build_norms_from_dataset(series_dict,
                                                  robust_percentiles),
               first |-> Idle]
    /\ UNCHANGED << scoreVars, br, cacheVars, ioVars >>

\* the same dataset is calibrated again with its elements in the order p;
\* first keeps the dataset and the output of the first calibration
Recalibrate(p) ==
    /\ cal # Idle
    /\ cal.first = Idle
    /\ cal' = [cal EXCEPT
                 !.series_dict = Permuted(cal.series_dict, p),
                 !.out = build_norms_from_dataset(
                             Permuted(cal.series_dict, p),
                             cal.robust_percentiles),
                 !.first = [fn |-> "first", series_dict |-> cal.series_dict,
                            out |-> cal.out]]
    /\ UNCHANGED << scoreVars, br, cacheVars, ioVars >>

\* br = self._fallback_result(payload, fallback_score)
FallbackResult(factors, fallback_score) ==
    /\ br = Idle
    /\ br' = [fn |-> "_fallback_result", factors |-> factors,
              fallback_score |-> fallback_score,
              out |-> _fallback_result(factors, fallback_score)]
    /\ UNCHANGED << scoreVars, cal, cacheVars, ioVars >>

\* br = self._enforce_thresholds(scored)
EnforceThresholds(scored) ==
    /\ br = Idle
    /\ br' = [fn |-> "_enforce_thresholds", data |-> scored,
              out |-> _enforce_thresholds(scored)]
    /\ UNCHANGED << scoreVars, cal, cacheVars, ioVars >>

\* co = to_float(v)
ToFloat(v) ==
    /\ co = Idle
    /\ co' = [fn |-> "to_float", v |-> v, out |-> to_float(v)]
    /\ UNCHANGED << scoreVars, cal, br, cacheVars, client, sn, fc >>

\* co = to_int(v)
ToInt(v) ==
    /\ co = Idle
    /\ co' = [fn |-> "to_int", v |-> v, out |-> to_int(v)]
    /\ UNCHANGED << scoreVars, cal, br, cacheVars, client, sn, fc >>

\* br = broker.score_and_explain(analysis)
ScoreAndExplain(factors, fallback_total_score, llm) ==
    /\ br = Idle
    /\ br' = [fn |-> "score_and_explain", factors |-> factors,
              fallback_total_score |-> fallback_total_score, llm |-> llm,
              out |-> score_and_explain(factors, fallback_total_score, llm)]
    /\ UNCHANGED << scoreVars, cal, cacheVars, ioVars >>

\* client = BackendClient(): use_api is the outcome of the health check;
\* without the API the local mode is enabled, and a failure of
\* get_repository() leaves no client
Construct(ping, repo_ok) ==
    /\ client = Idle
    /\ ping \/ repo_ok
    /\ client' = [call |-> "__init__", exc |-> "none",
                  c |-> IF ping THEN NewClient(TRUE)
                        ELSE _enable_local_mode(NewClient(FALSE), repo_ok).c]
    /\ UNCHANGED << scoreVars, cal, br, cacheVars, co, sn, fc >>

\* a method call on the client: the client it leaves and what it raised
ClientCall(call, r) ==
    /\ client' = [call |-> call, exc |-> r.exc, c |-> r.c]
    /\ UNCHANGED << scoreVars, cal, br, cacheVars, co, sn, fc >>

ListProperties(api, repo_ok) ==
    /\ client # Idle
    /\ ClientCall("list_properties", list_properties(client.c, api, repo_ok))

GetAnalysis(pid, api, repo_ok, found) ==
    /\ client # Idle
    /\ ClientCall("get_analysis",
                  get_analysis(client.c, pid, api, repo_ok, found))

ScoreAnalysis(pid, api, repo_ok) ==
    /\ client # Idle
    /\ client.c.cache[pid].json
    /\ ClientCall("score_analysis",
                  score_analysis(client.c, pid, api, repo_ok))

AskBroker(pid, api_score, api, repo_ok) ==
    /\ client # Idle
    /\ client.c.cache[pid].json
    /\ ClientCall("ask_broker",
                  ask_broker(client.c, pid, api_score, api, repo_ok))

ExportPdf(pid, api_analysis, api_score, api, repo_ok, found) ==
    /\ client # Idle
    /\ ClientCall("export_pdf",
                  export_pdf(client.c, pid, api_analysis, api_score, api,
                             repo_ok, found))

\* fetch_table(table): records = [], offset = 0; the server holds n records
StartFetch(n) ==
    /\ sn = Idle
    /\ sn' = [pc |-> "request", table |-> [i \in 1..n |-> i],
              consistent |-> TRUE, offset |-> 0, records |-> << >>,
              offsets |-> << >>, lens |-> << >>]
    /\ UNCHANGED << scoreVars, cal, br, cacheVars, co, client, fc >>

\* between two requests the table of the server changes: its first record
\* is deleted, or a record (0) is added at its end
TableChanges(delete) ==
    /\ sn # Idle
    /\ sn.pc = "request"
    /\ sn.consistent
    /\ delete => sn.table # << >>
    /\ sn' = [sn EXCEPT !.consistent = FALSE,
                        !.table = IF delete THEN Tail(@)
                                  ELSE Append(@, 0)]
    /\ UNCHANGED << scoreVars, cal, br, cacheVars, co, client, fc >>

\* a loop that stops at an empty page only
RequestPageUntilEmpty(ok) ==
    /\ sn # Idle
    /\ sn.pc = "request"
    /\ LET page == Page(sn.table, sn.offset)
           seen == [sn EXCEPT !.offsets = Append(@, sn.offset),
                              !.lens = Append(@, Len(page))]
       IN  sn' = IF ~ok THEN [seen EXCEPT !.pc = "raised",
                                          !.lens = sn.lens]
                 ELSE IF page = << >> THEN [seen EXCEPT !.pc = "returned"]
                 ELSE [seen EXCEPT !.records = @ \o page,
                                   !.offset = @ + PAGE_SIZE]
    /\ UNCHANGED << scoreVars, cal, br, cacheVars, co, client, fc >>

\* one pass of the loop of fetch_table: the request at the current offset;
\* raise_for_status raises on an error status (ok is FALSE); an empty page
\* ends the loop; the page is appended; a page shorter than PAGE_SIZE ends
\* the loop; otherwise offset += PAGE_SIZE
RequestPage(ok) ==
    /\ sn # Idle
    /\ sn.pc = "request"
    /\ LET page == Page(sn.table, sn.offset)
           seen == [sn EXCEPT !.offsets = Append(@, sn.offset),
                              !.lens = Append(@, Len(page))]
       IN  sn' = IF ~ok THEN [seen EXCEPT !.pc = "raised",
                                          !.lens = sn.lens]
                 ELSE IF page = << >> THEN [seen EXCEPT !.pc = "returned"]
                 ELSE IF Len(page) < PAGE_SIZE
                      THEN [seen EXCEPT !.records = @ \o page,
                                        !.pc = "returned"]
                 ELSE [seen EXCEPT !.records = @ \o page,
                                   !.offset = @ + PAGE_SIZE]
    /\ UNCHANGED << scoreVars, cal, br, cacheVars, co, client, fc >>

\* fc = self._build_forecast(df, metric); each backend is not installed,
\* raises, or answers, and it answers only for two rows or more
BuildForecast(series, prophet, arima) ==
    /\ fc = Idle
    /\ Len(series) < 2 => (prophet # "ok" /\ arima # "ok")
    /\ fc' = [series |-> series, prophet |-> prophet, arima |-> arima,
              out |-> _build_forecast(series, prophet, arima)]
    /\ UNCHANGED << scoreVars, cal, br, cacheVars, co, client, sn >>

\* thread t calls a memoized method: wrapper(*args) builds its key.  The
\* history fields record the invalidations completed, the dataset version
\* and whether the key is cached at the moment of the call.
CallWrapper(t, prefix, args) ==
    /\ thr[t].pc \in {"idle", "done"}
    /\ thr[t].outer = NoFrame
    /\ calls < MaxCalls
    /\ calls' = calls + 1
    /\ thr' = [thr EXCEPT ![t] =
                 [pc |-> "acquire_lookup", op |-> "wrapper",
                  prefix |-> prefix, args |-> args, result |-> NoValue,
                  start_epoch |-> epoch[prefix], start_data |-> data,
                  seen |-> CacheKey(prefix, args) \in DOMAIN cache,
                  computed |-> FALSE, outer |-> NoFrame, nested |-> FALSE]]
    /\ UNCHANGED << scoreVars, cal, br, cache, lock, data, epoch, ioVars >>

\* with _cache_lock: (entering the block of the lookup)
AcquireLookup(t) ==
    /\ thr[t].pc = "acquire_lookup"
    /\ lock = 0
    /\ lock' = t
    /\ thr' = [thr EXCEPT ![t].pc = "lookup"]
    /\ UNCHANGED << scoreVars, cal, br, cache, data, epoch, calls, ioVars >>

\* the lookup of a wrapper that never finds its key
LookupAlwaysMiss(t) ==
    /\ thr[t].pc = "lookup"
    /\ lock' = 0
    /\ thr' = [thr EXCEPT ![t].pc = "compute"]
    /\ UNCHANGED << scoreVars, cal, br, cache, data, epoch, calls, ioVars >>

\* a wrapper that keeps _cache_lock after a miss, while func runs
LookupKeepsLock(t) ==
    /\ thr[t].pc = "lookup"
    /\ LET key == CacheKey(thr[t].prefix, thr[t].args)
       IN  IF key \in DOMAIN cache
           THEN /\ lock' = 0
                /\ thr' = [thr EXCEPT ![t].pc = "done",
                                      ![t].result = cache[key]]
           ELSE /\ lock' = lock
                /\ thr' = [thr EXCEPT ![t].pc = "compute"]
    /\ UNCHANGED << scoreVars, cal, br, cache, data, epoch, calls, ioVars >>

\* if key in _memory_cache: return _memory_cache[key]; the lock is
\* released on leaving the block
Lookup(t) ==
    /\ thr[t].pc = "lookup"
    /\ lock' = 0
    /\ LET key == CacheKey(thr[t].prefix, thr[t].args)
       IN  IF key \in DOMAIN cache
           THEN thr' = [thr EXCEPT ![t].pc = "done", ![t].result = cache[key]]
           ELSE thr' = [thr EXCEPT ![t].pc = "compute"]
    /\ UNCHANGED << scoreVars, cal, br, cache, data, epoch, calls, ioVars >>

\* result = func(*args, **kwargs), outside the lock: the wrapped method
\* reads the dataset the repository returns now
Compute(t) ==
    /\ thr[t].pc = "compute"
    /\ thr' = [thr EXCEPT ![t].pc = "acquire_store",
                          ![t].computed = TRUE,
                          ![t].result = Computed(thr[t].prefix, thr[t].args,
                                                 data, epoch[thr[t].prefix])]
    /\ UNCHANGED << scoreVars, cal, br, cache, lock, data, epoch, calls,
                    ioVars >>

\* the wrapped function of thread t, running outside the lock, calls the
\* memoized get_zip_forecast: the frame of the waiting call is kept and the
\* wrapper of the inner call starts
CallInner(t) ==
    /\ thr[t].pc = "compute"
    /\ thr[t].prefix = "analysis.metric_distributions"
    /\ ~thr[t].nested
    /\ thr' = [thr EXCEPT ![t] =
                 [pc |-> "acquire_lookup", op |-> "wrapper",
                  prefix |-> "forecast", args |-> thr[t].args,
                  result |-> NoValue, start_epoch |-> epoch["forecast"],
                  start_data |-> data,
                  seen |-> CacheKey("forecast", thr[t].args) \in DOMAIN cache,
                  computed |-> FALSE,
                  outer |-> [prefix |-> thr[t].prefix, args |-> thr[t].args],
                  nested |-> TRUE]]
    /\ UNCHANGED << scoreVars, cal, br, cache, lock, data, epoch, calls,
                    ioVars >>

\* the inner wrapper returned: the waiting function goes on
ReturnInner(t) ==
    /\ thr[t].pc = "done"
    /\ thr[t].outer # NoFrame
    /\ thr' = [thr EXCEPT ![t].pc = "compute",
                          ![t].prefix = thr[t].outer.prefix,
                          ![t].args = thr[t].outer.args,
                          ![t].result = NoValue,
                          ![t].computed = FALSE,
                          ![t].outer = NoFrame]
    /\ UNCHANGED << scoreVars, cal, br, cache, lock, data, epoch, calls,
                    ioVars >>

\* with _cache_lock: (entering the block of the store)
AcquireStore(t) ==
    /\ thr[t].pc = "acquire_store"
    /\ lock = 0
    /\ lock' = t
    /\ thr' = [thr EXCEPT ![t].pc = "store"]
    /\ UNCHANGED << scoreVars, cal, br, cache, data, epoch, calls, ioVars >>

\* _memory_cache[key] = result; return result
Store(t) ==
    /\ thr[t].pc = "store"
    /\ lock' = 0
    /\ cache' = CachePut(cache, CacheKey(thr[t].prefix, thr[t].args),
                         thr[t].result)
    /\ thr' = [thr EXCEPT ![t].pc = "done"]
    /\ UNCHANGED << scoreVars, cal, br, data, epoch, calls, ioVars >>

\* thread t calls clear_prefix(prefix)
CallClear(t, prefix) ==
    /\ thr[t].pc \in {"idle", "done"}
    /\ thr[t].outer = NoFrame
    /\ calls < MaxCalls
    /\ calls' = calls + 1
    /\ thr' = [thr EXCEPT ![t] =
                 [IdleThread EXCEPT !.pc = "acquire_clear", !.op = "clear",
                                    !.prefix = prefix]]
    /\ UNCHANGED << scoreVars, cal, br, cache, lock, data, epoch, ioVars >>

\* with _cache_lock: (entering the block of clear_prefix)
AcquireClear(t) ==
    /\ thr[t].pc = "acquire_clear"
    /\ lock = 0
    /\ lock' = t
    /\ thr' = [thr EXCEPT ![t].pc = "clear"]
    /\ UNCHANGED << scoreVars, cal, br, cache, data, epoch, calls, ioVars >>

\* the body of clear_prefix: the entries of the prefix are deleted and the
\* lock is released; the invalidation is complete
Clear(t) ==
    /\ thr[t].pc = "clear"
    /\ lock' = 0
    /\ cache' = CacheClear(cache, thr[t].prefix)
    /\ epoch' = [epoch EXCEPT ![thr[t].prefix] = @ + 1]
    /\ thr' = [thr EXCEPT ![t].pc = "done"]
    /\ UNCHANGED << scoreVars, cal, br, data, calls, ioVars >>

\* the repository starts returning another dataset
ChangeDataset ==
    /\ calls < MaxCalls
    /\ calls' = calls + 1
    /\ data' = data + 1
    /\ UNCHANGED << scoreVars, cal, br, cache, lock, thr, epoch, ioVars >>

\* ---------------------------------------------------------- specifications
Init ==
    /\ metrics \in MetricsSet
    /\ norms \in NormsSet
    /\ result = Pending
    /\ prev = [metrics |-> metrics, result |-> Pending]
    /\ dec = Idle
    /\ nm = Idle
    /\ ServicesIdle

Next == ScoreProperty

Spec == Init /\ [][Next]_vars

InitMono ==
    /\ metrics \in NumericMetricsSet
    /\ norms \in NormsSet
    /\ result = Pending
    /\ prev = [metrics |-> metrics, result |-> Pending]
    /\ dec = Idle
    /\ nm = Idle
    /\ ServicesIdle

NextMono ==
    \/ ScoreProperty
    \/ \E k \in MetricKeys : \E v \in NumDomain[k] : Rescore(k, v)

SpecMono == InitMono /\ [][NextMono]_vars

InitIdle ==
    /\ metrics = BaseMetrics
    /\ norms = BaseNorms
    /\ result = Pending
    /\ prev = [metrics |-> BaseMetrics, result |-> Pending]
    /\ dec = Idle
    /\ nm = Idle
    /\ ServicesIdle

NextDecision == \E s \in ScoreInputs : DecideCall(s)

SpecDecision == InitIdle /\ [][NextDecision]_vars

NextNormalize ==
    \/ \E x \in MinMaxInputs : \E b \in MinMaxBands :
          \E clip \in {<< None, None >>, b} :
             RobustMinMaxCall(x, b[1], b[2], clip[1], clip[2])
    \/ \E value \in SampleInputs : \E values \in Samples :
          BoundedMinMaxCall(value, values)

SpecNormalize == InitIdle /\ [][NextNormalize]_vars

NextCalibrate ==
    \/ \E sd \in SeriesDicts : \E rp \in PctPairs : BuildNorms(sd, rp)
    \/ /\ cal # Idle
       /\ \E p \in Perms(Len(cal.series_dict.at["cap"])) : Recalibrate(p)

SpecCalibrate == InitIdle /\ [][NextCalibrate]_vars

NextBroker ==
    \E factors \in PayloadFactors : \E s \in FallbackScores :
        FallbackResult(factors, s)

SpecBroker == InitIdle /\ [][NextBroker]_vars

NextLLM ==
    \/ br = Idle /\ \E scored \in LLMPayloads : EnforceThresholds(scored)
    \/ /\ br = Idle
       /\ \E factors \in {f \in PayloadFactors : Len(f) <= 2} : \E fts \in FallbackTotals :
             \E llm \in LLMReplies : ScoreAndExplain(factors, fts, llm)

SpecLLM == InitIdle /\ [][NextLLM]_vars

NextCoerce ==
    \/ co = Idle /\ \E v \in CoerceInputs : ToFloat(v)
    \/ co = Idle /\ \E v \in CoerceInputs : ToInt(v)

SpecCoerce == InitIdle /\ [][NextCoerce]_vars

NextClient ==
    \/ \E ping \in BOOLEAN : \E repo_ok \in BOOLEAN : Construct(ping, repo_ok)
    \/ \E api \in ApiOutcomes : \E repo_ok \in BOOLEAN :
          ListProperties(api, repo_ok)
    \/ \E pid \in Pids : \E api \in ApiOutcomes :
          \E repo_ok \in BOOLEAN : \E found \in BOOLEAN :
             GetAnalysis(pid, api, repo_ok, found)
    \/ \E pid \in Pids : \E api \in ApiOutcomes : \E repo_ok \in BOOLEAN :
          ScoreAnalysis(pid, api, repo_ok)
    \/ \E pid \in Pids : \E api_score \in ApiOutcomes :
          \E api \in ApiOutcomes : \E repo_ok \in BOOLEAN :
             AskBroker(pid, api_score, api, repo_ok)
    \/ \E pid \in Pids : \E api_analysis \in ApiOutcomes :
          \E api_score \in ApiOutcomes : \E api \in ApiOutcomes :
             \E repo_ok \in BOOLEAN : \E found \in BOOLEAN :
                ExportPdf(pid, api_analysis, api_score, api, repo_ok, found)

SpecClient == InitIdle /\ [][NextClient]_vars

NextFetch ==
    \/ \E n \in 0..MaxRecords : StartFetch(n)
    \/ \E delete \in BOOLEAN : TableChanges(delete)
    \/ \E ok \in BOOLEAN : RequestPage(ok)

SpecFetch == InitIdle /\ [][NextFetch]_vars

NextForecast ==
    /\ fc = Idle
    /\ \E series \in Histories :
          \E prophet \in {"unavailable", "raises", "ok"} :
             \E arima \in {"unavailable", "raises", "ok"} :
                BuildForecast(series, prophet, arima)

SpecForecast == InitIdle /\ [][NextForecast]_vars

NextCache ==
    \/ \E t \in Threads : \E p \in Prefixes : \E a \in Args :
          CallWrapper(t, p, a)
    \/ \E t \in Threads : AcquireLookup(t)
    \/ \E t \in Threads : Lookup(t)
    \/ \E t \in Threads : Compute(t)
    \/ \E t \in Threads : AcquireStore(t)
    \/ \E t \in Threads : Store(t)
    \/ \E t \in Threads : \E p \in Prefixes : CallClear(t, p)
    \/ \E t \in Threads : AcquireClear(t)
    \/ \E t \in Threads : Clear(t)
    \/ ChangeDataset

SpecCache == InitIdle /\ [][NextCache]_vars

\* scoring calls on every input, and calibration calls on every dataset in
\* the run that starts from the base metrics
NextPure ==
    \/ ScoreProperty
    \/ /\ metrics = BaseMetrics
       /\ norms = BaseNorms
       /\ \E sd \in SeriesDicts : \E rp \in PctPairs : BuildNorms(sd, rp)

SpecPure == Init /\ [][NextPure]_vars

\* one memoized call per thread, on one service, whose wrapped function
\* may call another memoized function; the scheduler keeps the threads
\* running: a thread that can take its next step takes it
ThreadStep(t) ==
    \/ AcquireLookup(t)
    \/ Lookup(t)
    \/ Compute(t)
    \/ ReturnInner(t)
    \/ AcquireStore(t)
    \/ Store(t)

NextNested ==
    \/ \E t \in Threads : \E p \in Prefixes :
          thr[t].pc = "idle" /\ CallWrapper(t, p, "service1")
    \/ \E t \in Threads : CallInner(t)
    \/ \E t \in Threads : AcquireLookup(t)
    \/ \E t \in Threads : Lookup(t)
    \/ \E t \in Threads : Compute(t)
    \/ \E t \in Threads : ReturnInner(t)
    \/ \E t \in Threads : AcquireStore(t)
    \/ \E t \in Threads : Store(t)

SpecNested ==
    /\ InitIdle
    /\ [][NextNested]_vars
    /\ \A t \in Threads : WF_vars(ThreadStep(t))

\* ----------------------------------------------------------------- claims
\* C1: whatever the metrics and the norms (a cap rate of 2.0 included), the
\* score a call of score_property returns is an integer from 0 to 100.
ScoreInRange ==
    result.error = "none" => result.score \in 0..100

\* a call returned for a cap rate of 2.0 and a market strength index
\* outside the band [-3, 3]
ScoreInRangeWitness ==
    /\ result.error = "none"
    /\ metrics["cap_rate_market_now"] = 20000
    /\ result.msi > 3000
    /\ result.score \in 0..100

\* C2: the decision is a total function of the integer score with fixed
\* thresholds (Buy iff score >= 75, Hold iff 55 <= score <= 74, Sell iff
\* score < 55), and the scorer and the UI's decision_from_score agree on
\* every integer score from 0 to 100.
DecisionThresholds ==
    (dec.fn = "decision" /\ dec.score # None) =>
        /\ dec.backend \in {"Buy", "Hold", "Sell"}
        /\ (dec.backend = "Buy") <=> (dec.score >= 75)
        /\ (dec.backend = "Hold") <=> (dec.score >= 55 /\ dec.score <= 74)
        /\ (dec.backend = "Sell") <=> (dec.score < 55)
        /\ dec.ui = dec.backend

\* the decision at the Buy boundary: 75 is Buy for both
DecisionThresholdsWitness ==
    /\ dec.fn = "decision"
    /\ dec.score = 75
    /\ dec.backend = "Buy"
    /\ dec.ui = "Buy"

\* the normalized value of a returned attribution, in thousandths:
\* contribution / weight
NormOf(f) == f.contrib \div f.weight

\* C3: every normalized factor value score_property computes lies in [0,1],
\* whatever the raw input.
NormalizedInUnitInterval ==
    result.error = "none" =>
        \A i \in 1..Len(result.factors) :
            NormOf(result.factors[i]) \in 0..1000

\* the readings of the current call other than those of the keys K are the
\* readings of the previous call
OnlyChanged(K) ==
    \A k \in MetricKeys \ K : metrics[k] = prev.metrics[k]

BothReturned == prev.result.error = "none" /\ result.error = "none"

\* C4: with the norms and all other metrics fixed, a higher cap rate, a
\* higher projected rent growth or a higher market strength index never
\* lowers the score.
MonotoneHigherIsBetter ==
    BothReturned =>
        /\ \A k \in {"cap_rate_market_now", "rent_growth_proj_12m"} :
              (OnlyChanged({k}) /\ metrics[k] > prev.metrics[k])
                  => result.score >= prev.result.score
        /\ ( /\ OnlyChanged({"income_median_now", "income_growth_3y",
                             "vacancy_rate_now", "dom_now"})
             /\ result.msi > prev.result.msi )
              => result.score >= prev.result.score

\* the cap rate alone was raised and the score rose
MonotoneHigherIsBetterWitness ==
    /\ BothReturned
    /\ OnlyChanged({"cap_rate_market_now"})
    /\ metrics["cap_rate_market_now"] > prev.metrics["cap_rate_market_now"]
    /\ result.score > prev.result.score

CollapsedSample(values) ==
    /\ Len(FiniteOf(values)) > 0
    /\ Percentile100(FiniteOf(values), 5) = Percentile100(FiniteOf(values), 95)

\* C6: when the low and the high bound of a distribution are equal, the
\* normalizer returns exactly 0.5 for every raw input and divides nothing:
\* _robust_minmax for lo = hi, bounded_min_max for coinciding percentiles.
DegenerateIsHalf ==
    /\ (nm.fn = "_robust_minmax" /\ nm.lo = nm.hi) => nm.out = 500
    /\ (nm.fn = "bounded_min_max" /\ CollapsedSample(nm.values))
          => nm.out = 500

\* _robust_minmax was called on a collapsed band with a raw value off the
\* band and returned 0.5
DegenerateIsHalfWitness ==
    /\ nm.fn = "_robust_minmax"
    /\ nm.lo = nm.hi
    /\ nm.x = 90
    /\ nm.clip_lo = nm.lo
    /\ nm.out = 500

\* the reading of a key is absent: no key, None or NaN
Absent(k) == metrics[k] \in {Missing, None, NaN}

\* C7: scoring a metrics record that lacks any subset of the keys (or holds
\* None for them) never raises, and the attribution of each missing metric
\* carries the value None.
MissingNeverRaises ==
    (result.error # "pending" /\ \A k \in MetricKeys : metrics[k] # NaN) =>
        /\ result.error = "none"
        /\ Absent("cap_rate_market_now") => result.factors[1].value = None
        /\ Absent("rent_growth_proj_12m") => result.factors[2].value = None
        /\ Absent("rent_to_income") => result.factors[4].value = None

\* C8: the missing-value convention is uniform: an absent or non-finite raw
\* value is normalized to exactly 0.0 (a contribution of 0) for every
\* metric, never to 0.5, a z-score of 0 or a substituted default raw value.
MissingNormalizesToZero ==
    result.error = "none" =>
        /\ Absent("cap_rate_market_now") => result.factors[1].contrib = 0
        /\ Absent("rent_growth_proj_12m") => result.factors[2].contrib = 0
        /\ (\A k \in {"income_median_now", "income_growth_3y",
                      "vacancy_rate_now", "dom_now"} : Absent(k))
              => result.factors[3].contrib = 0
        /\ Absent("rent_to_income") => result.factors[4].contrib = 0

\* the sum of the point contributions of the returned attributions, in
\* thousandths of a point (100000 times the weighted composite)
RECURSIVE ContribSum(_)
ContribSum(fs) ==
    IF fs = << >> THEN 0 ELSE Head(fs).contrib + ContribSum(Tail(fs))

\* C9 as stated: the score is round(100 * composite) clamped to [0,100],
\* the rounded sum of the factors' point contributions.
ScoreIsLinear ==
    result.error = "none" =>
        result.score =
            _clamp_int(RoundHalfEven(ContribSum(result.factors), 1000), 0, 100)

\* C9 as amended: the score is round(100 * sigmoid(z)) clamped to [0,100],
\* where z = (composite - mean) / std for (mean, std) = norms["raw_z"] (z = 0
\* when std is 0) and the composite is the sum over the factors of weight *
\* normalized, that is one hundredth of the sum of the contributions.
ScoreIsSigmoidOfComposite ==
    result.error = "none" =>
        LET composite == ContribSum(result.factors)
            z == IF norms.raw_z[2] = 0 THEN 0
                 ELSE ((composite - norms.raw_z[1]) * 1000) \div norms.raw_z[2]
        IN  result.score = _clamp_int(RoundPctSigmoid(z), 0, 100)

\* a returned score that is not the rounded sum of the contributions
ScoreIsSigmoidOfCompositeWitness ==
    /\ result.error = "none"
    /\ result.score = 75
    /\ RoundHalfEven(ContribSum(result.factors), 1000) = 63

\* C10: score_property returns exactly one attribution per factor, in the
\* order cap rate, rent growth, MSI, affordability, each with contribution
\* weight * normalized * 100 for the weight and the normalized value of the
\* composite.
FactorsInCatalogOrder ==
    result.error = "none" =>
        LET f == result.factors
            aff_value == 100 - Get(metrics, "rent_to_income", 30)
            cap_norm == _robust_minmax(metrics["cap_rate_market_now"],
                            norms.cap_minmax[1], norms.cap_minmax[2],
                            norms.cap_minmax[3], norms.cap_minmax[4])
            rentg_norm == _robust_minmax(metrics["rent_growth_proj_12m"],
                            norms.rentg_minmax[1], norms.rentg_minmax[2],
                            norms.rentg_minmax[3], norms.rentg_minmax[4])
            msi_norm == _robust_minmax(result.msi,
                            norms.msi_minmax[1], norms.msi_minmax[2],
                            norms.msi_minmax[3], norms.msi_minmax[4])
            aff_norm == _robust_minmax(aff_value,
                            norms.aff_minmax[1], norms.aff_minmax[2],
                            norms.aff_minmax[3], norms.aff_minmax[4])
        IN  /\ Len(f) = 4
            /\ << f[1].name, f[2].name, f[3].name, f[4].name >> =
                   << "Market Cap Rate", "Projected Rent Growth (12m)",
                      "Market Strength Index (MSI)",
                      "Affordability (1 - Rent/Inc)" >>
            /\ << f[1].weight, f[2].weight, f[3].weight, f[4].weight >> =
                   << 35, 35, 20, 10 >>
            /\ << f[1].value, f[2].value, f[3].value, f[4].value >> =
                   << metrics["cap_rate_market_now"],
                      metrics["rent_growth_proj_12m"], result.msi, aff_value >>
            /\ << f[1].contrib, f[2].contrib, f[3].contrib, f[4].contrib >> =
                   << 35 * cap_norm, 35 * rentg_norm, 20 * msi_norm,
                      10 * aff_norm >>

\* a call returned four attributions with a non-zero MSI contribution
FactorsInCatalogOrderWitness ==
    /\ result.error = "none"
    /\ Len(result.factors) = 4
    /\ result.factors[3].contrib = 20 * 1166
    /\ result.factors[1].contrib = 35 * 1000

\* the sum of the weight fields of a factor list, in percent
RECURSIVE WeightSum(_)
WeightSum(fs) ==
    IF fs = << >> THEN 0 ELSE Head(fs).weight + WeightSum(Tail(fs))

\* C11: the weights of the factors a call of score_property returns sum to
\* exactly 1.0 (100 percent), and when every normalized value lies in [0,1]
\* the weighted composite lies in [0,1].
WeightsSumToOne ==
    result.error = "none" =>
        /\ WeightSum(result.factors) = 100
        /\ W_CAP + W_RENTG + W_MSI + W_AFF = 100
        /\ (\A i \in 1..Len(result.factors) :
                NormOf(result.factors[i]) \in 0..1000)
           => ContribSum(result.factors) \in 0..100000

\* a call whose four normalized values are all 1.0: the composite reaches
\* the upper end of [0,1]
WeightsSumToOneWitness ==
    /\ result.error = "none"
    /\ \A i \in 1..Len(result.factors) : NormOf(result.factors[i]) = 1000
    /\ ContribSum(result.factors) = 100000

\* a dataset was calibrated a second time with its elements reordered
Reordered ==
    /\ cal # Idle
    /\ cal.first # Idle
    /\ cal.series_dict # cal.first.series_dict

\* the *_minmax bounds of a calibration output
BoundsOf(out) ==
    << out.norms.cap_minmax, out.norms.rentg_minmax, out.norms.msi_minmax,
       out.norms.aff_minmax >>

\* the (mean, std) pairs of a calibration output
MeanStdOf(out) ==
    << out.norms.income_median_z, out.norms.income_growth_z,
       out.norms.vacancy_z, out.norms.dom_z, out.norms.raw_z >>

\* C13 as stated: for every permutation of the dataset's elements
\* build_norms_from_dataset returns identical bounds and identical
\* (mean, std) pairs.
CalibrationOrderIndependent ==
    Reordered => cal.out = cal.first.out

\* C13, amended: for every permutation of the dataset's elements
\* build_norms_from_dataset raises the same exception or returns identical
\* *_minmax bounds; the (mean, std) pairs come from float sums taken in
\* element order and need not be identical.
BoundsOrderIndependent ==
    Reordered =>
        /\ cal.out.error = cal.first.out.error
        /\ cal.out.error = "none" => BoundsOf(cal.out) = BoundsOf(cal.first.out)

\* a reordered dataset of finite values whose bounds are a proper band and
\* whose mean differs between the two orders
BoundsOrderIndependentWitness ==
    /\ Reordered
    /\ cal.out.error = "none"
    /\ IsFinite(cal.out.norms.cap_minmax[1])
    /\ cal.out.norms.cap_minmax[1] < cal.out.norms.cap_minmax[2]
    /\ MeanStdOf(cal.out) # MeanStdOf(cal.first.out)

\* a calibration call whose percentiles np.nanpercentile accepts
Calibrated ==
    /\ cal # Idle
    /\ cal.robust_percentiles[1] \in 0..100
    /\ cal.robust_percentiles[2] \in 0..100

\* the present, finite values of the series under key k
FiniteSample(series_dict, k) == FiniteOf(AsFloatArray(series_dict.at[k]))

\* every number in the norms: the bounds, the clips that are present, the
\* means and the stds
NormNumbers(n) ==
    {n.cap_minmax[i] : i \in 1..4} \cup {n.rentg_minmax[i] : i \in 1..4}
        \cup {n.msi_minmax[i] : i \in 1..2} \cup {n.aff_minmax[i] : i \in 1..2}
        \cup {n.income_median_z[i] : i \in 1..2}
        \cup {n.income_growth_z[i] : i \in 1..2}
        \cup {n.vacancy_z[i] : i \in 1..2} \cup {n.dom_z[i] : i \in 1..2}
        \cup {n.raw_z[i] : i \in 1..2}

\* C14: calibrating a dataset whose samples are empty (an empty dictionary,
\* empty series, or series without a present, finite value) raises no error
\* and leaves every metric with defined (non-NaN) normalization bounds.
EmptySampleHasDefaults ==
    (/\ Calibrated
     /\ \A k \in SeriesKeys : FiniteSample(cal.series_dict, k) = << >>)
    => /\ cal.out.error = "none"
       /\ NaN \notin NormNumbers(cal.out.norms)

\* the dataset of a calibration with every non-finite value removed
WithoutNonFinite(series_dict) ==
    [series_dict EXCEPT
        !.at = [k \in SeriesKeys |-> FiniteSample(series_dict, k)]]

\* C15: nan, +inf and -inf are excluded before the percentiles, means and
\* stds are computed: the calibration of a dataset equals the calibration
\* of the dataset with its non-finite values removed, and no bound is
\* non-finite when the sample holds a finite value.
NonFiniteExcluded ==
    (Calibrated /\ cal.series_dict.keys = SeriesKeys)
    => /\ cal.out = build_norms_from_dataset(
                        WithoutNonFinite(cal.series_dict),
                        cal.robust_percentiles)
       /\ (\A k \in SeriesKeys : FiniteSample(cal.series_dict, k) # << >>)
          => \A x \in NormNumbers(cal.out.norms) : x = None \/ IsFinite(x)

\* a <= b on floats: False when either side is nan
FloatLeq(a, b) == a # NaN /\ b # NaN /\ a <= b

\* C16: every *_minmax tuple a calibration returns has lo <= hi, and
\* clip_lo <= clip_hi when the clips are present, whatever the dataset and
\* the robust_percentiles.
BoundsNonDecreasing ==
    (cal # Idle /\ cal.out.error = "none") =>
        \A t \in {cal.out.norms.cap_minmax, cal.out.norms.rentg_minmax,
                  cal.out.norms.msi_minmax, cal.out.norms.aff_minmax} :
            /\ FloatLeq(t[1], t[2])
            /\ t[3] # None => FloatLeq(t[3], t[4])

\* the place of factor i in the descending order of absolute contribution,
\* ties in the original order
RankOf(fs, i) ==
    1 + Cardinality({j \in 1..Len(fs) :
            \/ AbsContrib(fs[j]) > AbsContrib(fs[i])
            \/ AbsContrib(fs[j]) = AbsContrib(fs[i]) /\ j < i})

\* C17: the top contributors of the fallback result are the first two
\* factors (fewer if fewer exist) in descending order of absolute
\* contribution, ties kept in the factors' original order.
TopContributorsStable ==
    br # Idle =>
        LET fs  == br.factors
            top == br.out.top_contributors
        IN  /\ Len(top) = (IF Len(fs) < 2 THEN Len(fs) ELSE 2)
            /\ \A i \in 1..Len(fs) :
                  RankOf(fs, i) <= 2 => top[RankOf(fs, i)].name = fs[i].name

\* the largest contribution comes last and the two before it tie: the
\* earlier of the tied factors takes the second place
TopContributorsStableWitness ==
    /\ br # Idle
    /\ Len(br.factors) >= 3
    /\ AbsContrib(br.factors[1]) = AbsContrib(br.factors[2])
    /\ AbsContrib(br.factors[3]) > AbsContrib(br.factors[1])
    /\ br.out.top_contributors[1].name = br.factors[3].name
    /\ br.out.top_contributors[2].name = br.factors[1].name

\* thread t has returned from a call of a memoized method
Returned(t) == thr[t].op = "wrapper" /\ thr[t].pc = "done"

\* C18: recalibration is an atomic swap: a call that starts after an
\* invalidation completed never receives a value computed from the dataset
\* as read before that invalidation, and no computation in flight across
\* the invalidation installs its result into the cache afterwards.
RecalibrationIsAtomicSwap ==
    /\ \A t \in Threads :
          Returned(t) => thr[t].result.epoch >= thr[t].start_epoch
    /\ \A k \in DOMAIN cache : cache[k].epoch = epoch[k[1]]

\* a call that found its key cached when it started and during which no
\* clear_prefix of its prefix completed
RepeatCall(t) ==
    /\ Returned(t)
    /\ thr[t].seen
    /\ epoch[thr[t].prefix] = thr[t].start_epoch

\* C19 as stated: a repeat call with no clear_prefix in between returns the
\* stored result without invoking the calibrator again, and after the
\* dataset has changed the next call returns a value calibrated on the new
\* dataset.
RecomputedWhenDatasetChanges ==
    \A t \in Threads :
        /\ (RepeatCall(t) /\ data = thr[t].start_data) => ~thr[t].computed
        /\ Returned(t) => thr[t].result.ver >= thr[t].start_data

\* C19, amended: the cached value is served as long as its entry exists: a
\* repeat call with no clear_prefix in between does not invoke the wrapped
\* function again, whether or not the dataset has changed; a call that does
\* invoke it gets a value computed from the dataset as it was when the call
\* started or later.
ServedFromCacheUntilCleared ==
    \A t \in Threads :
        /\ RepeatCall(t) => ~thr[t].computed
        /\ (Returned(t) /\ thr[t].computed)
           => thr[t].result.ver >= thr[t].start_data

\* a repeat call that started after the dataset changed and was served the
\* value computed from the old dataset
ServedFromCacheUntilClearedWitness ==
    \E t \in Threads :
        /\ RepeatCall(t)
        /\ ~thr[t].computed
        /\ thr[t].result.ver < thr[t].start_data

\* C20: memoize is thread-safe: a thread reads or writes the cache only
\* while it holds _cache_lock, and every call returns a value the wrapped
\* function produced for the call's own (prefix, args) key.
MemoizeThreadSafe ==
    /\ \A t \in Threads :
          thr[t].pc \in {"lookup", "store", "clear"} => lock = t
    /\ \A t \in Threads :
          Returned(t) => thr[t].result.call = << thr[t].prefix, thr[t].args >>
    /\ \A k \in DOMAIN cache : cache[k].call = k

\* one thread was served a value another call had stored under the same
\* key while the other thread, inside the lock, stores a value of the same
\* prefix for other arguments
MemoizeThreadSafeWitness ==
    \E t, u \in Threads :
        /\ Returned(t)
        /\ ~thr[t].computed
        /\ thr[u].pc = "store"
        /\ lock = u
        /\ thr[u].prefix = thr[t].prefix
        /\ thr[u].args # thr[t].args

EnforcedDecisionMatchesScore ==
    (br.fn = "_enforce_thresholds" /\ br.out.error = "none") =>
        /\ br.out.score \in 0..100
        /\ ScoreRaises(br.data.score) => br.out.score = 0
        /\ br.out.decision = IF br.out.score >= 75 THEN "Buy"
                             ELSE IF br.out.score >= 55 THEN "Hold"
                             ELSE "Sell"

\* the LLM answered score 250 with decision "Sell": the result is 100, Buy
EnforcedDecisionMatchesScoreWitness ==
    /\ br.fn = "_enforce_thresholds"
    /\ br.data.score = [kind |-> "number", val |-> 2500]
    /\ br.data.decision = "Sell"
    /\ br.out.error = "none"
    /\ br.out.score = 100
    /\ br.out.decision = "Buy"

\* a string that spells a decimal number: spaces, then an optional "-",
\* then digits with at most one "." among them, then spaces
IsNumeral(chars) ==
    \E a \in 1..Len(chars) : \E b \in a..Len(chars) :
        /\ \A i \in 1..Len(chars) : (i < a \/ i > b) => chars[i] = " "
        /\ chars[a] # " " /\ chars[b] # " "
        /\ \A i \in (a + 1)..b : chars[i] \in {"1", "5", "."}
        /\ chars[a] \in {"1", "5", ".", "-"}
        /\ Cardinality({i \in a..b : chars[i] = "."}) <= 1
        /\ \E i \in a..b : chars[i] \in {"1", "5"}

\* the string "null" in any letter case
SpellsNull(chars) ==
    /\ Len(chars) = 4
    /\ chars[1] \in {"n", "N"}
    /\ chars[2] \in {"u", "U"}
    /\ chars[3] \in {"l", "L"}
    /\ chars[4] \in {"l", "L"}

\* C23: to_float and to_int never raise; they return None for None, for the
\* empty string, for "null" in any letter case and for every value that
\* does not parse as a number; otherwise to_float returns the number and
\* to_int the integer it truncates to.
CoercionNeverRaises ==
    co # Idle =>
        /\ ~Failed(co.out)
        /\ co.v.kind \in {"none", "list"} => co.out = NoneOut
        /\ (co.v.kind = "str" /\ ~IsNumeral(co.v.chars)) => co.out = NoneOut
        /\ (co.v.kind = "str" /\ SpellsNull(co.v.chars)) => co.out = NoneOut
        /\ (co.v.kind = "str" /\ IsNumeral(co.v.chars)) =>
              co.out.kind = IF co.fn = "to_float" THEN "float" ELSE "int"
        /\ (co.v.kind = "float" /\ co.fn = "to_float") =>
              /\ co.out.kind = "float"
              /\ co.out.num * co.v.den = co.v.num * co.out.den
        /\ co.out.kind = "int" =>
              LET f == to_float(co.v)
                  m == IF co.out.num < 0 THEN 0 - co.out.num ELSE co.out.num
                  a == IF f.num < 0 THEN 0 - f.num ELSE f.num
              IN  /\ m * f.den <= a
                  /\ a < (m + 1) * f.den
                  /\ co.out.num < 0 => f.num < 0
                  /\ co.out.num > 0 => f.num > 0
        /\ co.v.chars = << "1", ".", "5" >> =>
              co.out.num * 10 = (IF co.fn = "to_float" THEN 15 ELSE 10)
                                * co.out.den

\* to_int of the string "-1.5" returned -1
CoercionNeverRaisesWitness ==
    /\ co # Idle
    /\ co.fn = "to_int"
    /\ co.v.chars = << "-", "1", ".", "5" >>
    /\ co.out = [kind |-> "int", num |-> -1, den |-> 1]

\* the LLM failed: no model is configured, the call raised, the response
\* is empty or no JSON, or the payload lacks a required key
LLMFailed(llm) == ~llm.model \/ llm.outcome # "json"

\* C24: score_and_explain never propagates an LLM failure: on every failure
\* it returns the fallback result, whose score is
\* explanations.fallback_total_score (0 when absent) and whose decision is
\* the threshold mapping of that score.
FallbackOnLLMFailure ==
    br.fn = "score_and_explain" =>
        /\ br.out.error = "none"
        /\ LLMFailed(br.llm) =>
              /\ br.out.score = IF br.fallback_total_score \in {Missing, None}
                                THEN 0 ELSE br.fallback_total_score
              /\ br.out.decision = IF br.out.score >= 75 THEN "Buy"
                                   ELSE IF br.out.score >= 55 THEN "Hold"
                                   ELSE "Sell"
              /\ br.out.top_contributors = TopContributors(br.factors)

\* the Gemini call raised for an analysis whose fallback score is 75: the
\* fallback result says 75, Buy
FallbackOnLLMFailureWitness ==
    /\ br.fn = "score_and_explain"
    /\ br.llm.model
    /\ br.llm.outcome = "raises"
    /\ br.fallback_total_score = 75
    /\ br.out.error = "none"
    /\ br.out.score = 75
    /\ br.out.decision = "Buy"

\* the local services the client's methods use are all initialised
LocalReady(c) ==
    c.repository /\ c.analysis_service /\ c.broker /\ c.pdf_service

\* C25: after construction and after every method call, whatever the API
\* answered, use_api = False implies that repository, analysis_service,
\* broker and pdf_service are initialised, and use_api never changes from
\* False back to True.
ClientModeInvariant ==
    [][/\ (client' # Idle /\ ~client'.c.use_api) => LocalReady(client'.c)
       /\ (client # Idle /\ ~client.c.use_api) => ~client'.c.use_api]_vars

\* the API answered the health check, then failed during get_analysis: the
\* client is in local mode with its services, and the analysis was local
ClientModeInvariantWitness ==
    /\ client # Idle
    /\ client.call = "get_analysis"
    /\ client.exc = "none"
    /\ ~client.c.use_api
    /\ client.c.cache["p1"].model
    /\ LocalReady(client.c)

\* C26: fetch_table requests the offsets 0, PAGE_SIZE, 2*PAGE_SIZE, ... in
\* order and stops exactly at the first page that is empty or shorter than
\* PAGE_SIZE; for a table of N records that does not change during the
\* call it makes at most floor(N/PAGE_SIZE)+1 requests and returns the N
\* records once each in the order of the server.
FetchTablePaging ==
    sn # Idle =>
        /\ \A i \in 1..Len(sn.offsets) : sn.offsets[i] = (i - 1) * PAGE_SIZE
        /\ \A i \in 1..Len(sn.lens) :
              (i < Len(sn.lens) \/ sn.pc # "returned")
                 => sn.lens[i] = PAGE_SIZE
        /\ sn.pc = "returned" =>
              /\ sn.lens # << >>
              /\ sn.lens[Len(sn.lens)] < PAGE_SIZE
        /\ sn.consistent =>
              Len(sn.offsets) <= (Len(sn.table) \div PAGE_SIZE) + 1
        /\ (sn.consistent /\ sn.pc = "returned") => sn.records = sn.table

\* a table of four records: three requests, the last page is empty
FetchTablePagingWitness ==
    /\ sn # Idle
    /\ sn.pc = "returned"
    /\ sn.consistent
    /\ sn.offsets = << 0, 2, 4 >>
    /\ sn.lens = << 2, 2, 0 >>
    /\ sn.records = << 1, 2, 3, 4 >>

\* C27: _build_forecast tries Prophet first, ARIMA only when Prophet is
\* unavailable or raised, the naive projection only when ARIMA is
\* unavailable or raised; for a non-empty history and any combination of
\* backend failures it returns exactly 36 points without raising, those
\* of the first backend that succeeds.
ForecastFallbackOrder ==
    (fc # Idle /\ fc.series # << >>) =>
        LET tried == fc.out.tried
            last  == tried[Len(tried)]
            Pos(b) == CHOOSE i \in 1..Len(tried) : tried[i] = b
            In(b)  == \E i \in 1..Len(tried) : tried[i] = b
        IN  /\ fc.out.exc = "none"
            /\ Len(fc.out.points) = 36
            /\ In("prophet") <=> fc.prophet # "unavailable"
            /\ In("arima") <=> (fc.prophet # "ok" /\ fc.arima # "unavailable")
            /\ In("naive") <=> (fc.prophet # "ok" /\ fc.arima # "ok")
            /\ (In("prophet") /\ In("arima")) => Pos("prophet") < Pos("arima")
            /\ (In("arima") /\ In("naive")) => Pos("arima") < Pos("naive")
            /\ (In("prophet") /\ In("naive")) => Pos("prophet") < Pos("naive")
            /\ last = IF fc.prophet = "ok" THEN "prophet"
                      ELSE IF fc.arima = "ok" THEN "arima" ELSE "naive"
            /\ \A i \in 1..36 :
                  IF last = "naive" THEN fc.out.points[i].den > 0
                  ELSE fc.out.points[i].backend = last

\* Prophet raised, ARIMA is not installed: the 36 points of the naive
\* projection of a rising history
ForecastFallbackOrderWitness ==
    /\ fc # Idle
    /\ fc.prophet = "raises"
    /\ fc.arima = "unavailable"
    /\ fc.series = << 1500, 1800 >>
    /\ fc.out.tried = << "prophet", "naive" >>
    /\ Len(fc.out.points) = 36
    /\ fc.out.points[36].value = 1800 + 300 * 36

\* no clear_prefix was called so far
NoClearPrefix ==
    /\ \A p \in Prefixes : epoch[p] = 0
    /\ \A t \in Threads : thr[t].op # "clear"

\* C28: single computation per key: of the calls of a memoized function
\* with the same key, with no clear_prefix in between, at most one executes
\* the wrapped function, and every caller receives that one result.
SingleComputationPerKey ==
    NoClearPrefix =>
        \A t, u \in Threads :
            (/\ t # u
             /\ thr[t].op = "wrapper" /\ thr[u].op = "wrapper"
             /\ thr[t].prefix = thr[u].prefix /\ thr[t].args = thr[u].args)
            => /\ ~(thr[t].computed /\ thr[u].computed)
               /\ (Returned(t) /\ Returned(u))
                     => thr[t].result = thr[u].result

\* C29: the wrapper never holds _cache_lock while the wrapped function
\* executes (the lock is held in the lookup and in the store only), so
\* nested memoized calls and concurrent callers cannot deadlock on it:
\* every wrapper call that started returns.
LockFreeWhileComputing ==
    /\ [](\A t \in Threads :
             lock = t => thr[t].pc \in {"lookup", "store"})
    /\ \A t \in Threads :
          (thr[t].pc # "idle") ~> (thr[t].pc = "done" /\ thr[t].outer = NoFrame)

\* a call whose wrapped function made a memoized call itself has returned,
\* while another thread is computing for another key
LockFreeWhileComputingWitness ==
    \E t, u \in Threads :
        /\ Returned(t)
        /\ thr[t].nested
        /\ thr[t].outer = NoFrame
        /\ thr[t].computed
        /\ thr[t].prefix = "analysis.metric_distributions"
        /\ thr[u].pc = "compute"
        /\ thr[u].prefix = "forecast"
        /\ ~thr[u].nested

\* C30: clear_prefix(p) removes every cache entry whose key has prefix p
\* and leaves every entry of another prefix unchanged: same keys, same
\* values.
ClearPrefixFrame ==
    [][\A t \in Threads :
          (thr[t].pc = "clear" /\ thr'[t].pc = "done") =>
              /\ \A k \in DOMAIN cache' : k[1] # thr[t].prefix
              /\ DOMAIN cache' \subseteq DOMAIN cache
              /\ \A k \in DOMAIN cache :
                    k[1] # thr[t].prefix =>
                       /\ k \in DOMAIN cache'
                       /\ cache'[k] = cache[k]]_vars

\* clear_prefix("forecast") has completed: the forecast another thread had
\* computed and stored is gone, the entry of the other prefix is kept
ClearPrefixFrameWitness ==
    \E t, u \in Threads :
        /\ thr[t].op = "clear" /\ thr[t].pc = "done"
        /\ thr[t].prefix = "forecast"
        /\ Returned(u) /\ thr[u].computed /\ thr[u].prefix = "forecast"
        /\ << "forecast", thr[u].args >> \notin DOMAIN cache
        /\ \E a \in Args :
              << "analysis.metric_distributions", a >> \in DOMAIN cache

====
